---------------------------- MODULE Spec2Model ----------------------------
(***************************************************************************)
(* Verification model of BlenderCoD (XModel / XAnim import-export add-on). *)
(*                                                                         *)
(*   SpecLz4     PyCoD/_lz4.py: module load, compress, uncompress          *)
(*   SpecWeights export_xmodel.py: save's bone table, ExportMesh.add_weights *)
(*   SpecFaces   export_xmodel.py: ExportMesh.__init__, to_xmodel_mesh       *)
(*   SpecImport  __init__.py / import_xmodel.py: the XModel import operator  *)
(*   SpecSanitize export_xmodel.py: sanitize_material_name                   *)
(*   SpecExport  __init__.py / export_xmodel.py: the XModel export operator  *)
(*               up to the version gate of save                              *)
(*   SpecXanimExport __init__.py / export_xanim.py: the XAnim export operator *)
(*   SpecXanimImport __init__.py / import_xanim.py: the XAnim import operator *)
(*   SpecMenus      __init__.py: register, unregister, update_submenu_mode   *)
(*   SpecObjects    export_xmodel.py: save, the per-object loop              *)
(*   SpecMaterials export_xmodel.py: save, the meshes against the shared     *)
(*               material list                                               *)
(***************************************************************************)
EXTENDS Integers, Sequences, FiniteSets, TLC

VARIABLES
    \* ---- PyCoD/_lz4.py ----
    modState,     \* "unloaded" | "loaded" | "load_failed"
    supportMode,  \* __support_mode__: "none" | "pure Python" | "python-lz4"
    loadError,    \* exception that escaped the module body, or "none"
    defined,      \* module-level names bound after the load
    origin,       \* where the block came from: "none" | "compress" | "raw"
    data,         \* argument of compress()
    src,          \* argument of uncompress(): the block
    skip,         \* argument of uncompress(): offset
    pos,          \* read position of BytesIO(src)
    dst,          \* the local output bytearray
    token,        \* the current sequence's token
    literal_len,  \* decoded literal length of the current sequence
    match_off,    \* decoded back-reference offset of the current sequence
    match_len,    \* decoded match length of the current sequence
    pc,           \* position inside uncompress
    status,       \* "none" | "ok" | "CorruptError" | "IndexError"
    errmsg,       \* message of the raised exception
    returned,     \* TRUE once uncompress has returned a value
    ret,          \* the value uncompress returned
    \* ---- shared.py ----
    warning_messages,  \* shared.warning_messages
    printed,           \* kinds of messages print()ed to the console
    popup,             \* messages the warnings dialog has displayed
    \* ---- export_xmodel.py: save (bone table) and ExportMesh.add_weights ----
    xpc,               \* position inside save
    use_armature,      \* kwargs['use_armature']
    armature,          \* armature.data.bones (<<>> when armature is None)
    model_bones,       \* model.bones: [name, parent]
    bone_table,        \* bone_table: bone names by index
    vertex_groups,     \* self.object.vertex_groups: group names by index
    vertices,          \* self.mesh.vertices: each vertex's groups [group, weight]
    weight_threshold,  \* weight_min_threshold (tenths)
    weights,           \* ExportMesh.weights: per vertex a list of [bone, weight]
    \* ---- export_xmodel.py: ExportMesh.__init__ and to_xmodel_mesh ----
    fpc,               \* position inside save's mesh handling
    mesh,              \* self.mesh: verts, loops, uv, colour layers, polygons, materials
    obj_matrix,        \* self.matrix (obj.matrix_world)
    model_materials,   \* save's materials list, shared by the ExportMeshes
    mesh_material_map, \* ExportMesh.materials: mesh slot -> model material index
    convert_args,      \* use_vtx_cols, use_alpha, use_alpha_mode, global_scale
    xmesh,             \* the XModel.Mesh that to_xmodel_mesh returns
    \* ---- __init__.py COD_MT_import_xmodel.execute / import_xmodel.py load ----
    ipc,               \* position inside execute / load
    imodel,            \* the XModel.Model that LoadModelFile filled
    import_args,       \* use_armature, use_parents, use_dup_tris, the scale options
    target_scale,      \* load's target_scale in hundredths: {} before it is set
    bm_faces,          \* faces created in the bmesh: [verts, material_index, uvs]
    material_usage_counts, \* material_usage_counts
    edit_bones,        \* armature.edit_bones: [name, parent]
    op_result,         \* what execute returned, or "EXCEPTION"
    op_error,          \* the exception that left execute, or "none"
    \* ---- export_xmodel.py sanitize_material_name ----
    sanpc,             \* position around the call of sanitize_material_name
    material_name,     \* material.name, a sequence of characters
    sanitized,         \* what sanitize_material_name returned
    \* ---- export_xmodel.py save: meshes and materials ----
    matpc,             \* position inside save: mesh loop, conversion, materials
    save_meshes,       \* meshes: the ExportMesh objects, [mesh, matrix, materials]
    save_materials,    \* materials: the model material list
    xmodel_meshes,     \* model.meshes
    xmodel_materials,  \* model.materials: the names written
    save_raised,       \* the exception that left save, or "none"
    \* ---- __init__.py COD_MT_export_xmodel.execute / export_xmodel.py save ----
    epc,               \* position inside COD_MT_export_xmodel.execute / save
    export_scene,      \* what save finds: active object, objects, filepath
    export_kwargs,     \* self.as_keywords(): format_version
    use_vtx_cols,      \* {use_vtx_cols} of save, {} before line 364
    save_result,       \* what save returned: "unset", "None" or its message
    export_result,     \* what execute returned
    export_error,      \* the exception raised inside save, or "none"
    \* ---- __init__.py COD_MT_export_xanim.execute / export_xanim.py save ----
    apc,               \* position inside COD_MT_export_xanim.execute / save
    anim_scene,        \* what save finds: object, pose bones, selection, actions, frames
    anim_args,         \* use_selection, write_tag_align, use_all_actions, global_scale
    anims,             \* the Anim objects written, one per action
    anim_save_result,  \* what save returned: "unset", "None" or its message
    anim_result,       \* what execute returned, or "EXCEPTION"
    anim_error,        \* the exception that left execute, or "none"
    \* ---- __init__.py COD_MT_import_xanim.execute / import_xanim.py ----
    xipc,              \* position inside COD_MT_import_xanim.execute / load / load_anim
    clip_scene,        \* what load finds: the armature (pose bones in list order), the clip
    bone_map,          \* bone_map in insertion order: [name, part_index, parent, matrix]
    frame_i,           \* index of the frame being baked
    bone_i,            \* index in bone_map of the next bone of the frame
    last_call,         \* the last calc_basis call: arguments and the matrices it got
    keyed,             \* (bone, frame) pairs that were keyframed
    xi_result,         \* what execute returned, or "EXCEPTION"
    xi_error,          \* the exception that left execute, or "none"
    xi_notes,          \* the flag LoadFile_Raw was given, the pose markers made
    \* ---- __init__.py register / unregister / update_submenu_mode ----
    classes_registered, \* whether the classes of the add-on are registered
    use_submenu,       \* preferences.use_submenu
    file_import,       \* draw functions of TOPBAR_MT_file_import, in order
    file_export,       \* draw functions of TOPBAR_MT_file_export, in order
    plugin_preferences, \* shared.plugin_preferences: "None" or "preferences"
    \* ---- export_xmodel.py save: the per-object loop ----
    objpc,             \* save: position in the per-object loop
    save_objects,      \* save(objects): the objects, with their modifiers as they are now
    save_objects_before, \* the objects as they were when save was called
    loop_kwargs,       \* use_armature_pose, apply_modifiers
    obj_index,         \* index of the next object of the loop
    loop_meshes,       \* save: meshes
    converted_meshes,  \* model.meshes, by the object each came from
    loop_raised        \* the exception that left save, or "None"

lz4vars == <<modState, supportMode, loadError, defined, origin, data, src, skip,
             pos, dst, token, literal_len, match_off, match_len, pc, status,
             errmsg, returned, ret>>

sharedvars == <<warning_messages, printed, popup>>

wgtvars == <<xpc, use_armature, armature, model_bones, bone_table, vertex_groups,
             vertices, weight_threshold, weights>>

facevars == <<fpc, mesh, obj_matrix, model_materials, mesh_material_map,
              convert_args, xmesh>>

impvars == <<ipc, imodel, import_args, target_scale, bm_faces, material_usage_counts,
             edit_bones, op_result, op_error>>

sanvars == <<sanpc, material_name, sanitized>>

matvars == <<matpc, save_meshes, save_materials, xmodel_meshes, xmodel_materials, save_raised>>

expvars == <<epc, export_scene, export_kwargs, use_vtx_cols, save_result, export_result, export_error>>

xavars == <<apc, anim_scene, anim_args, anims, anim_save_result, anim_result, anim_error>>

xivars == <<xipc, clip_scene, bone_map, frame_i, bone_i, last_call, keyed, xi_result, xi_error,
            xi_notes>>

menuvars == <<classes_registered, use_submenu, file_import, file_export, plugin_preferences>>

objvars == <<objpc, save_objects, save_objects_before, loop_kwargs, obj_index, loop_meshes, converted_meshes, loop_raised>>

vars == <<lz4vars, sharedvars, wgtvars, facevars, impvars, sanvars, matvars, expvars, xavars, xivars, menuvars, objvars>>

\* The part of the state one component leaves alone
NotLz4 == UNCHANGED <<objvars, menuvars, xivars, xavars, sharedvars, wgtvars, facevars, impvars, sanvars, matvars, expvars>>
NotWgt == UNCHANGED <<objvars, menuvars, xivars, xavars, lz4vars, facevars, impvars, sanvars, matvars, expvars>>
NotFace == UNCHANGED <<objvars, menuvars, xivars, xavars, lz4vars, impvars, sanvars, matvars, expvars, xpc, use_armature,
                       armature, model_bones, bone_table, vertex_groups, vertices,
                       weight_threshold>>
NotImp == UNCHANGED <<objvars, menuvars, xivars, xavars, lz4vars, wgtvars, facevars, sanvars, matvars, expvars>>
NotSan == UNCHANGED <<objvars, menuvars, xivars, xavars, lz4vars, wgtvars, facevars, impvars, matvars, expvars>>
NotMat == UNCHANGED <<objvars, menuvars, xivars, xavars, lz4vars, wgtvars, facevars, impvars, sanvars, expvars>>
NotExp == UNCHANGED <<objvars, menuvars, xivars, xavars, lz4vars, wgtvars, facevars, impvars, sanvars, matvars>>
NotXa == UNCHANGED <<objvars, menuvars, xivars, lz4vars, wgtvars, facevars, impvars, sanvars, matvars, expvars>>
NotXi == UNCHANGED <<objvars, menuvars, lz4vars, wgtvars, facevars, impvars, sanvars, matvars, expvars, xavars>>
NotMenu == UNCHANGED <<objvars, lz4vars, wgtvars, facevars, impvars, sanvars, matvars, expvars, xavars, xivars>>
NotObj == UNCHANGED <<lz4vars, wgtvars, facevars, impvars, sanvars, matvars, expvars, xavars, xivars, menuvars>>

\* The state of a component that has not run
Lz4Idle ==
    /\ modState = "unloaded"
    /\ supportMode = "none"
    /\ loadError = "none"
    /\ defined = {}
    /\ origin = "none"
    /\ data = <<>>
    /\ src = <<>>
    /\ skip = 0
    /\ pos = 0
    /\ dst = <<>>
    /\ token = 0
    /\ literal_len = 0
    /\ match_off = 0
    /\ match_len = 0
    /\ pc = "idle"
    /\ status = "none"
    /\ errmsg = ""
    /\ returned = FALSE
    /\ ret = <<>>

SharedIdle ==
    /\ warning_messages = <<>>
    /\ printed = {}
    /\ popup = <<>>

WgtIdle ==
    /\ xpc = "start"
    /\ use_armature = TRUE
    /\ armature = <<>>
    /\ model_bones = <<>>
    /\ bone_table = <<>>
    /\ vertex_groups = <<>>
    /\ vertices = <<>>
    /\ weight_threshold = 0
    /\ weights = <<>>

NoMesh == [name |-> "", verts |-> <<>>, loops |-> <<>>, uv |-> <<>>, colors |-> <<>>,
           active_color |-> 0, polygons |-> <<>>, materials |-> <<>>]

FaceIdle ==
    /\ fpc = "start"
    /\ mesh = NoMesh
    /\ obj_matrix = "identity"
    /\ model_materials = <<>>
    /\ mesh_material_map = <<>>
    /\ convert_args = [use_vtx_cols |-> FALSE, use_alpha |-> FALSE,
                       use_alpha_mode |-> "PRIMARY", global_scale |-> 1]
    /\ xmesh = [name |-> "", verts |-> <<>>, faces |-> <<>>]

ImpIdle ==
    /\ ipc = "start"
    /\ imodel = [materials |-> <<>>, vert_count |-> 0, faces |-> <<>>, bones |-> <<>>]
    /\ import_args = [use_armature |-> TRUE, use_parents |-> TRUE, use_dup_tris |-> TRUE,
                      apply_unit_scale |-> FALSE, global_scale |-> 100]
    /\ target_scale = {}
    /\ bm_faces = <<>>
    /\ material_usage_counts = <<>>
    /\ edit_bones = <<>>
    /\ op_result = "none"
    /\ op_error = "none"

SanIdle ==
    /\ sanpc = "start"
    /\ material_name = <<>>
    /\ sanitized = <<>>

MatIdle ==
    /\ matpc = "start"
    /\ save_meshes = <<>>
    /\ save_materials = <<>>
    /\ xmodel_meshes = <<>>
    /\ xmodel_materials = <<>>
    /\ save_raised = "none"

ExpIdle ==
    /\ epc = "start"
    /\ export_scene = [active_is_mesh |-> FALSE, objects |-> <<>>, filepath_empty |-> FALSE]
    /\ export_kwargs = [format_version |-> [type |-> "str", str |-> "7", int |-> 0]]
    /\ use_vtx_cols = {}
    /\ save_result = "unset"
    /\ export_result = "none"
    /\ export_error = "none"

XaIdle ==
    /\ apc = "start"
    /\ anim_scene = [ob |-> "none", pose_bones |-> <<>>, selected |-> <<>>,
                     selection_is_none |-> FALSE, actions |-> 0,
                     frame_start |-> 0, frame_end |-> 0]
    /\ anim_args = [use_selection |-> TRUE, write_tag_align |-> FALSE,
                    use_all_actions |-> FALSE, global_scale |-> 1,
                    apply_unit_scale |-> FALSE]
    /\ anims = <<>>
    /\ anim_save_result = "unset"
    /\ anim_result = "none"
    /\ anim_error = "none"

XiIdle ==
    /\ xipc = "start"
    /\ clip_scene = [has_armature |-> FALSE, bones |-> <<>>, parts |-> <<>>, frames |-> 0,
                     files |-> 1, global_scale |-> 1, update_frame_range |-> TRUE,
                     use_notetracks |-> TRUE, use_notetrack_file |-> FALSE,
                     is_bin |-> FALSE, notes |-> 0, apply_unit_scale |-> FALSE]
    /\ bone_map = <<>>
    /\ frame_i = 0
    /\ bone_i = 0
    /\ last_call = <<>>
    /\ keyed = {}
    /\ xi_result = "none"
    /\ xi_error = "none"
    /\ xi_notes = [LoadFile_Raw |-> {}, markers |-> 0]

MenuIdle ==
    /\ classes_registered = FALSE
    /\ use_submenu = FALSE
    /\ file_import = <<>>
    /\ file_export = <<>>
    /\ plugin_preferences = "None"

ObjIdle ==
    /\ objpc = "start"
    /\ save_objects = <<>>
    /\ save_objects_before = <<>>
    /\ loop_kwargs = [use_armature_pose |-> FALSE, apply_modifiers |-> FALSE]
    /\ obj_index = 1
    /\ loop_meshes = <<>>
    /\ converted_meshes = <<>>
    /\ loop_raised = "None"

Idle == ObjIdle /\ MenuIdle /\ XiIdle /\ XaIdle /\ ExpIdle /\ MatIdle /\ SanIdle /\ Lz4Idle /\ SharedIdle /\ WgtIdle /\ FaceIdle /\ ImpIdle

-----------------------------------------------------------------------------
(* Generic helpers *)

Min(a, b) == IF a < b THEN a ELSE b

RECURSIVE SeqsUpTo(_, _)
SeqsUpTo(S, n) ==
    IF n = 0 THEN {<<>>}
    ELSE LET shorter == SeqsUpTo(S, n - 1)
         IN  shorter \cup {Append(s, x) : s \in {t \in shorter : Len(t) = n - 1}, x \in S}

Repeat(x, n) == [i \in 1..n |-> x]

-----------------------------------------------------------------------------
(* PyCoD/_lz4.py *)

min_match_len == 4

\* Bounds of the inputs
MaxDataLen  == 2   \* compress() is also fed every sequence up to this length
MaxBlockLen == 4   \* uncompress() is fed every raw block up to this length
MaxExt      == 2   \* literal lengths reach 15 + 255*MaxExt + 1

DataAlphabet  == {0, 65, 255}
BlockAlphabet == {0, 1, 2, 16, 17, 31, 240, 255}
PatternSeeds  == {0, 7, 254}
OffsetArgs    == {0, 4}

\* The scenario block: token 0x40, then "ABCD"
ScenarioBlock == <<64, 65, 66, 67, 68>>

RoundTripLens ==
    {14, 15, 16} \cup {15 + 255 * k + d : k \in 1..MaxExt, d \in {-1, 0, 1}}

Pattern(n, a) == [i \in 1..n |-> (a * i + a + i) % 256]

DataSet ==
    SeqsUpTo(DataAlphabet, MaxDataLen)
        \cup {Pattern(n, a) : n \in RoundTripLens, a \in PatternSeeds}

\* Blocks with a match sequence, closed by an empty literal-only sequence:
\* "A" then offset 1 with match selector 15 extended by 255 and 2; "AB" then
\* offset 2, length 5; "ABC" then offset 3, length 4; "A" then offset 2
MatchBlocks ==
    {<<31, 65, 1, 0, 255, 2, 0>>,
     <<33, 65, 66, 2, 0, 0>>,
     <<48, 65, 66, 67, 3, 0, 0>>,
     <<16, 65, 2, 0, 0>>}

BlockSet == SeqsUpTo(BlockAlphabet, MaxBlockLen) \cup {ScenarioBlock} \cup MatchBlocks

\* compress(): an all-literal block
compress_NoEmptyLengthByte(d) ==
    LET length == Len(d)
    IN  IF length > 15
        THEN <<240>> \o Repeat(255, (length - 15) \div 255)
                     \o <<(length - 15) % 255>> \o d
        ELSE <<(length * 16) % 256>> \o d

compress(d) ==
    LET length == Len(d)
    IN  IF length > 15
        THEN <<240>> \o Repeat(255, (length - 15) \div 255)
                     \o <<(length - 15) % 255>> \o d
        ELSE <<length * 16>> \o (IF length = 15 THEN <<0>> ELSE <<>>) \o d

\* uncompress.get_length: the variable-length integer that starts with the
\* 4-bit selector `length`, read from s at position p (bytes consumed so far)
RECURSIVE get_length_loop(_, _, _)
get_length_loop(s, p, length) ==
    IF p >= Len(s)
    THEN [ok |-> FALSE, length |-> length, pos |-> p]
    ELSE LET len_part == s[p + 1]
         IN  IF len_part # 255
             THEN [ok |-> TRUE, length |-> length + len_part, pos |-> p + 1]
             ELSE get_length_loop(s, p + 1, length + len_part)

get_length_SingleByte(s, p, length) ==
    IF length # 15
    THEN [ok |-> TRUE, length |-> length, pos |-> p]
    ELSE IF p >= Len(s)
    THEN [ok |-> FALSE, length |-> length, pos |-> p]
    ELSE [ok |-> TRUE, length |-> length + s[p + 1], pos |-> p + 1]

get_length(s, p, length) ==
    IF length # 15
    THEN [ok |-> TRUE, length |-> length, pos |-> p]
    ELSE get_length_loop(s, p, length)

\* raise CorruptError(msg) / an uncaught IndexError: the local dst is lost
Raise(kind, msg) ==
    /\ status' = kind
    /\ errmsg' = msg
    /\ pc' = "failed"
    /\ UNCHANGED <<returned, ret>>

LoadUnch == UNCHANGED <<modState, supportMode, loadError, defined>>
ArgsUnch == UNCHANGED <<origin, data, src, skip>>

\* Module body: try: import lz4.block / except ImportError: ... / else: ...
LoadModule ==
    /\ NotLz4
    /\ modState = "unloaded"
    /\ \E lz4Present, ensurepipOk, pipInstallOk, lz4AfterInstall \in BOOLEAN :
         IF lz4Present
         THEN /\ modState' = "loaded"
              /\ supportMode' = "python-lz4"
              /\ loadError' = "none"
              /\ defined' = {"compress", "uncompress", "support_info"}
         ELSE IF ~ensurepipOk \/ ~pipInstallOk
         THEN /\ modState' = "load_failed"
              /\ supportMode' = "none"
              /\ loadError' = "CalledProcessError"
              /\ defined' = {}
         ELSE IF ~lz4AfterInstall
         THEN /\ modState' = "load_failed"
              /\ supportMode' = "none"
              /\ loadError' = "ImportError"
              /\ defined' = {}
         ELSE /\ modState' = "loaded"
              /\ supportMode' = "pure Python"
              /\ loadError' = "none"
              /\ defined' = {"CorruptError", "compress", "uncompress", "support_info"}
    /\ UNCHANGED <<origin, data, src, skip, pos, dst, token, literal_len,
                   match_off, match_len, pc, status, errmsg, returned, ret>>

PurePython == modState = "loaded" /\ supportMode = "pure Python"

\* A caller compresses d and will hand the block to uncompress
CallCompress ==
    /\ NotLz4
    /\ PurePython /\ pc = "idle"
    /\ \E d \in DataSet :
         /\ data' = d
         /\ src' = compress(d)
    /\ origin' = "compress"
    /\ pc' = "have_block"
    /\ LoadUnch
    /\ UNCHANGED <<skip, pos, dst, token, literal_len, match_off, match_len,
                   status, errmsg, returned, ret>>

\* A caller holds an arbitrary block (read from a file)
FeedBlock ==
    /\ NotLz4
    /\ PurePython /\ pc = "idle"
    /\ \E b \in BlockSet : src' = b
    /\ origin' = "raw"
    /\ pc' = "have_block"
    /\ LoadUnch
    /\ UNCHANGED <<data, skip, pos, dst, token, literal_len, match_off,
                   match_len, status, errmsg, returned, ret>>

\* uncompress(src, offset): BytesIO(src); src.read(offset); dst = bytearray()
UncompressEnter ==
    /\ NotLz4
    /\ pc = "have_block"
    /\ \E off \in OffsetArgs :
         /\ skip' = off
         /\ pos' = IF off > 0 THEN Min(off, Len(src)) ELSE 0
    /\ dst' = <<>>
    /\ pc' = "token"
    /\ LoadUnch
    /\ UNCHANGED <<origin, data, src, token, literal_len, match_off, match_len,
                   status, errmsg, returned, ret>>

\* read_buf = src.read(1); token = byte2int(read_buf)
ReadToken ==
    /\ NotLz4
    /\ pc = "token"
    /\ IF pos >= Len(src)
       THEN /\ Raise("CorruptError", "EOF at reading literal-len")
            /\ UNCHANGED <<pos, token>>
       ELSE /\ token' = src[pos + 1]
            /\ pos' = pos + 1
            /\ pc' = "literal_len"
            /\ UNCHANGED <<status, errmsg, returned, ret>>
    /\ LoadUnch /\ ArgsUnch
    /\ UNCHANGED <<dst, literal_len, match_off, match_len>>

\* literal_len = get_length(src, (token >> 4) & 0x0f)
ReadLiteralLen ==
    /\ NotLz4
    /\ pc = "literal_len"
    /\ LET r == get_length(src, pos, (token \div 16) % 16)
       IN  IF ~r.ok
           THEN /\ Raise("CorruptError", "EOF at length read")
                /\ UNCHANGED <<pos, literal_len>>
           ELSE /\ literal_len' = r.length
                /\ pos' = r.pos
                /\ pc' = "literal"
                /\ UNCHANGED <<status, errmsg, returned, ret>>
    /\ LoadUnch /\ ArgsUnch
    /\ UNCHANGED <<dst, token, match_off, match_len>>

\* read_buf = src.read(literal_len); dst.extend(read_buf)
CopyLiteral ==
    /\ NotLz4
    /\ pc = "literal"
    /\ IF Len(src) - pos < literal_len
       THEN /\ Raise("CorruptError", "not literal data")
            /\ UNCHANGED <<pos, dst>>
       ELSE /\ dst' = dst \o SubSeq(src, pos + 1, pos + literal_len)
            /\ pos' = pos + literal_len
            /\ pc' = "offset"
            /\ UNCHANGED <<status, errmsg, returned, ret>>
    /\ LoadUnch /\ ArgsUnch
    /\ UNCHANGED <<token, literal_len, match_off, match_len>>

\* read_buf = src.read(2): end of block, or the little-endian offset
ReadOffset_NoSelectorCheck ==
    /\ NotLz4
    /\ pc = "offset"
    /\ IF pos >= Len(src)
       THEN /\ status' = "ok"
            /\ returned' = TRUE
            /\ ret' = dst
            /\ pc' = "done"
            /\ UNCHANGED <<pos, match_off, errmsg>>
       ELSE IF Len(src) - pos < 2
       THEN /\ Raise("CorruptError", "premature EOF")
            /\ UNCHANGED <<pos, match_off>>
       ELSE LET o == src[pos + 1] + 256 * src[pos + 2]
            IN  IF o = 0
                THEN /\ Raise("CorruptError", "offset can't be 0")
                     /\ UNCHANGED <<pos, match_off>>
                ELSE /\ match_off' = o
                     /\ pos' = pos + 2
                     /\ pc' = "match_len"
                     /\ UNCHANGED <<status, errmsg, returned, ret>>
    /\ LoadUnch /\ ArgsUnch
    /\ UNCHANGED <<dst, token, literal_len, match_len>>

ReadOffset_NoZeroOffsetCheck ==
    /\ NotLz4
    /\ pc = "offset"
    /\ IF pos >= Len(src)
       THEN IF token % 16 # 0
            THEN /\ Raise("CorruptError", "EOF, but match-len > 0")
                 /\ UNCHANGED <<pos, match_off>>
            ELSE /\ status' = "ok"
                 /\ returned' = TRUE
                 /\ ret' = dst
                 /\ pc' = "done"
                 /\ UNCHANGED <<pos, match_off, errmsg>>
       ELSE IF Len(src) - pos < 2
       THEN /\ Raise("CorruptError", "premature EOF")
            /\ UNCHANGED <<pos, match_off>>
       ELSE /\ match_off' = src[pos + 1] + 256 * src[pos + 2]
            /\ pos' = pos + 2
            /\ pc' = "match_len"
            /\ UNCHANGED <<status, errmsg, returned, ret>>
    /\ LoadUnch /\ ArgsUnch
    /\ UNCHANGED <<dst, token, literal_len, match_len>>

ReadOffset ==
    /\ NotLz4
    /\ pc = "offset"
    /\ IF pos >= Len(src)
       THEN IF token % 16 # 0
            THEN /\ Raise("CorruptError", "EOF, but match-len > 0")
                 /\ UNCHANGED <<pos, match_off>>
            ELSE /\ status' = "ok"
                 /\ returned' = TRUE
                 /\ ret' = dst
                 /\ pc' = "done"
                 /\ UNCHANGED <<pos, match_off, errmsg>>
       ELSE IF Len(src) - pos < 2
       THEN /\ Raise("CorruptError", "premature EOF")
            /\ UNCHANGED <<pos, match_off>>
       ELSE LET o == src[pos + 1] + 256 * src[pos + 2]
            IN  IF o = 0
                THEN /\ Raise("CorruptError", "offset can't be 0")
                     /\ UNCHANGED <<pos, match_off>>
                ELSE /\ match_off' = o
                     /\ pos' = pos + 2
                     /\ pc' = "match_len"
                     /\ UNCHANGED <<status, errmsg, returned, ret>>
    /\ LoadUnch /\ ArgsUnch
    /\ UNCHANGED <<dst, token, literal_len, match_len>>

\* match_len = get_length(src, token & 0x0f) + min_match_len
ReadMatchLen ==
    /\ NotLz4
    /\ pc = "match_len"
    /\ LET r == get_length(src, pos, token % 16)
       IN  IF ~r.ok
           THEN /\ Raise("CorruptError", "EOF at length read")
                /\ UNCHANGED <<pos, match_len>>
           ELSE /\ match_len' = r.length + min_match_len
                /\ pos' = r.pos
                /\ pc' = "match"
                /\ UNCHANGED <<status, errmsg, returned, ret>>
    /\ LoadUnch /\ ArgsUnch
    /\ UNCHANGED <<dst, token, literal_len, match_off>>

\* for _ in xrange(match_len): dst.append(dst[-offset])
\* Each appended byte is the byte o places before it, so the n bytes are the
\* last o bytes of d, repeated in order.
AppendWindow_RepeatByte(d, o, n) == d \o Repeat(d[Len(d) + 1 - o], n)

AppendWindow(d, o, n) ==
    [i \in 1..(Len(d) + n) |->
        IF i <= Len(d) THEN d[i]
        ELSE d[Len(d) - o + 1 + ((i - Len(d) - 1) % o)]]

CopyMatch ==
    /\ NotLz4
    /\ pc = "match"
    /\ IF match_off > Len(dst)
       THEN /\ Raise("IndexError", "bytearray index out of range")
            /\ UNCHANGED dst
       ELSE /\ dst' = AppendWindow(dst, match_off, match_len)
            /\ pc' = "token"
            /\ UNCHANGED <<status, errmsg, returned, ret>>
    /\ LoadUnch /\ ArgsUnch
    /\ UNCHANGED <<pos, token, literal_len, match_off, match_len>>

Lz4Init == Idle

Lz4Next ==
    \/ LoadModule
    \/ CallCompress
    \/ FeedBlock
    \/ UncompressEnter
    \/ ReadToken
    \/ ReadLiteralLen
    \/ CopyLiteral
    \/ ReadOffset
    \/ ReadMatchLen
    \/ CopyMatch

SpecLz4 == Lz4Init /\ [][Lz4Next]_vars

-----------------------------------------------------------------------------
(* Claims about PyCoD/_lz4.py, checked under SpecLz4 *)

\* C1: codec round trip. Decoding the block compress(b) from its first byte
\* (offset = 0) never fails, never meets a match sequence, and returns exactly b.
C1_RoundTrip ==
    (origin = "compress" /\ skip = 0 /\ pc \notin {"idle", "have_block"}) =>
        /\ pc \in {"token", "literal_len", "literal", "offset", "done"}
        /\ status \in {"none", "ok"}
        /\ pc = "done" => (returned /\ status = "ok" /\ ret = data)

C1_Witness ==
    /\ pc = "done" /\ origin = "compress" /\ skip = 0
    /\ Len(data) = 15 + 255
    /\ returned /\ ret = data

\* C2: uncompress returns exactly when the input is exhausted right after a
\* literal copy and the token's low nibble is 0; with a nonzero nibble at that
\* point it fails. The scenario block decodes to "ABCD".
C2_TerminatesOnlyAfterLiteral ==
    [][ /\ (pc' = "done" /\ pc # "done") =>
             /\ pc = "offset" /\ pos = Len(src) /\ token % 16 = 0
             /\ status' = "ok" /\ returned' /\ ret' = dst
        /\ (pc = "offset" /\ pos = Len(src)) =>
             IF token % 16 = 0
             THEN pc' = "done" /\ status' = "ok"
             ELSE pc' = "failed" /\ status' # "ok" /\ ~returned'
        /\ (status' = "ok") <=> (pc' = "done")
        /\ (src = ScenarioBlock /\ skip = 0 /\ pc' = "done") =>
             ret' = <<65, 66, 67, 68>>
      ]_vars

C2_Witness ==
    /\ pc = "done" /\ origin = "raw" /\ src = ScenarioBlock /\ skip = 0
    /\ returned /\ ret = <<65, 66, 67, 68>>

\* C3: each kind of corrupt input makes uncompress raise CorruptError, and
\* nothing is returned: a missing length-extension byte, a short literal
\* payload, a one-byte offset field, a zero offset, end of input after the
\* literals with a nonzero match-length selector.
RestAllFF == \A i \in (pos + 1)..Len(src) : src[i] = 255

C3_MissingLengthByte ==
    \/ pc = "literal_len" /\ (token \div 16) % 16 = 15 /\ RestAllFF
    \/ pc = "match_len" /\ token % 16 = 15 /\ RestAllFF

C3_ShortLiteral == pc = "literal" /\ Len(src) - pos < literal_len

C3_ShortOffset == pc = "offset" /\ Len(src) - pos = 1

C3_ZeroOffset ==
    pc = "offset" /\ Len(src) - pos >= 2 /\ src[pos + 1] = 0 /\ src[pos + 2] = 0

C3_PendingMatchAtEof == pc = "offset" /\ pos = Len(src) /\ token % 16 # 0

C3_CorruptCase ==
    \/ C3_MissingLengthByte
    \/ C3_ShortLiteral
    \/ C3_ShortOffset
    \/ C3_ZeroOffset
    \/ C3_PendingMatchAtEof

C3_CorruptInputFails ==
    [][ /\ C3_CorruptCase =>
             (pc' = "failed" /\ status' = "CorruptError" /\ ~returned')
        /\ status' = "CorruptError" => ~returned'
      ]_vars

C3_Witness ==
    /\ pc = "failed" /\ status = "CorruptError" /\ ~returned
    /\ errmsg = "offset can't be 0"
    /\ Len(dst) > 0

\* C4: loading the codec module always completes and leaves compress and
\* uncompress defined, whatever the environment provides.
C4_LoadAlwaysDefinesCodec ==
    modState # "unloaded" =>
        (modState = "loaded" /\ {"compress", "uncompress"} \subseteq defined)

\* The bytes from the read position on spell a length extension: k bytes 255
\* and then a byte below 255
ExtensionAt(k) ==
    /\ pos + k + 1 <= Len(src)
    /\ \A i \in 1..k : src[pos + i] = 255
    /\ src[pos + k + 1] < 255

\* This step decodes selector s into `decoded` by the length rule
DecodesLength(s, decoded) ==
    IF s < 15
    THEN decoded = s /\ pos' = pos
    ELSE \E k \in 0..Len(src) :
            /\ ExtensionAt(k)
            /\ decoded = 15 + 255 * k + src[pos + k + 1]
            /\ pos' = pos + k + 1

\* C23: length decoding. A selector s < 15 decodes to s and consumes nothing;
\* a selector of 15 followed by k bytes 255 and a byte r < 255 decodes to
\* 15 + 255k + r and consumes exactly those k + 1 bytes. The rule is the same
\* for the literal length and for the match length (to which 4 is added).
C23_LengthDecoding ==
    [][ /\ (pc = "literal_len" /\ pc' = "literal") =>
             DecodesLength((token \div 16) % 16, literal_len')
        /\ (pc = "match_len" /\ pc' = "match") =>
             DecodesLength(token % 16, match_len' - min_match_len)
        /\ (pc = "literal_len" /\ ((token \div 16) % 16 < 15 \/ \E k \in 0..Len(src) : ExtensionAt(k))) =>
             pc' = "literal"
        /\ (pc = "match_len" /\ (token % 16 < 15 \/ \E k \in 0..Len(src) : ExtensionAt(k))) =>
             pc' = "match"
      ]_vars

C23_Witness ==
    /\ pc = "match" /\ src = <<31, 65, 1, 0, 255, 2, 0>> /\ skip = 0
    /\ literal_len = 1
    /\ match_len = 15 + 255 + 2 + min_match_len
    /\ pos = 6

\* C24: match copy. With 1 <= offset <= bytes produced, the copy succeeds, the
\* output grows by exactly match_len bytes, every new byte at position p
\* equals the output byte at p - offset (also when offset < match_len), and
\* the bytes produced earlier are unchanged.
C24_MatchCopy ==
    [][ pc = "match" =>
          /\ (1 <= match_off /\ match_off <= Len(dst)) => pc' = "token"
          /\ pc' = "token" =>
               /\ Len(dst') = Len(dst) + match_len
               /\ SubSeq(dst', 1, Len(dst)) = dst
               /\ \A p \in (Len(dst) + 1)..Len(dst') : dst'[p] = dst'[p - match_off]
      ]_vars

C24_Witness ==
    /\ pc = "done" /\ src = <<33, 65, 66, 2, 0, 0>> /\ skip = 0
    /\ match_off = 2 /\ match_len = 5
    /\ ret = <<65, 66, 65, 66, 65, 66, 65>>

\* C26: for every input, uncompress either returns decoded bytes or raises
\* CorruptError and nothing else; a match whose offset is larger than the
\* number of bytes produced so far is reported as CorruptError.
C26_OnlyCorruptError ==
    /\ pc = "failed" => status = "CorruptError"
    /\ status \in {"none", "ok", "CorruptError"}

-----------------------------------------------------------------------------
(* shared.py: the warning accumulator *)

\* show_warnings(): nothing to show leaves everything alone; otherwise the
\* messages go to the dialog, which replaces the one shown before, and the
\* list is emptied
show_warnings_popup(msgs, shown) == IF Len(msgs) = 0 THEN shown ELSE msgs

show_warnings_left(msgs) == IF Len(msgs) = 0 THEN msgs ELSE <<>>

\* add_warning(_msg): print, then warning_messages.append('--> ' + _msg)
add_warning(msgs, kind) == Append(msgs, kind)

-----------------------------------------------------------------------------
(* export_xmodel.py: save's bone table and ExportMesh.add_weights           *)
(*                                                                         *)
(* Bone and vertex-group names are numbers; a weight is the exact rational *)
(* [n, d] (n / d), raw weights being tenths.                               *)

MaxWeights == 15     \* the format's limit of weights per vertex
tag_origin == 0      \* name of the dummy bone
MaxBones   == 17     \* bones of the largest armature, groups of the largest object
SmallBones == 3      \* armatures up to this size come in every hierarchy

Range(f) == {f[i] : i \in DOMAIN f}

\* list.index(x): position (from 0) of the first x
IndexOf(seq, x) ==
    (CHOOSE i \in 1..Len(seq) : seq[i] = x /\ \A j \in 1..(i - 1) : seq[j] # x) - 1

Weight(k) == [n |-> k, d |-> 10]
One == [n |-> 1, d |-> 1]

RAdd(a, b) ==
    IF a.d = b.d THEN [n |-> a.n + b.n, d |-> a.d]
    ELSE [n |-> a.n * b.d + b.n * a.d, d |-> a.d * b.d]
RDiv(a, b) == [n |-> a.n * b.d, d |-> a.d * b.n]
RGeq(a, b) == a.n * b.d >= b.n * a.d
RGt(a, b) == a.n * b.d > b.n * a.d
REq(a, b) == a.n * b.d = b.n * a.d

\* sum(w for _, w in v)
RECURSIVE WeightSum(_)
WeightSum(v) ==
    IF v = <<>> THEN [n |-> 0, d |-> 1]
    ELSE RAdd(WeightSum(SubSeq(v, 1, Len(v) - 1)), v[Len(v)].weight)

\* armature.data.bones lists the bones parent first, depth first: a bone's
\* parent is the previous bone or one of the previous bone's ancestors
RECURSIVE AncestorsOrSelf(_, _)
AncestorsOrSelf(pp, i) ==
    IF i = 0 THEN {} ELSE {i} \cup AncestorsOrSelf(pp, pp[i])

Hierarchies(n) ==
    {pp \in [1..n -> 0..(n - 1)] :
        /\ pp[1] = 0
        /\ \A i \in 2..n : pp[i] = 0 \/ pp[i] \in AncestorsOrSelf(pp, i - 1)}

BoneName(i) == 100 + i

Bones(n, pp) ==
    [i \in 1..n |->
        [name |-> BoneName(i),
         parent |-> IF pp[i] = 0 THEN <<>> ELSE <<BoneName(pp[i])>>]]

Chain(n) == [i \in 1..n |-> i - 1]

ArmatureSet ==
    UNION {{Bones(n, pp) : pp \in Hierarchies(n)} : n \in 1..SmallBones}
        \cup {Bones(n, Chain(n)) : n \in {MaxBones - 1, MaxBones}}

\* save, lines 408-438: the bone table of the armature, or the dummy bone
SaveBoneTable(use_arm, arm) ==
    IF use_arm /\ arm # <<>>
    THEN LET table == [i \in 1..Len(arm) |-> arm[i].name]
         IN  [bone_table |-> table,
              bones |-> [i \in 1..Len(arm) |->
                  [name |-> arm[i].name,
                   parent |-> IF arm[i].parent # <<>>
                              THEN IF arm[i].parent[1] \in Range(table)
                                   THEN IndexOf(table, arm[i].parent[1])
                                   ELSE 0
                              ELSE -1]]]
    ELSE [bone_table |-> <<tag_origin>>,
          bones |-> <<[name |-> tag_origin, parent |-> -1]>>]

RECURSIVE InsertDesc_TiesFirst(_, _)
InsertDesc_TiesFirst(sorted, e) ==
    IF sorted = <<>> THEN <<e>>
    ELSE IF RGeq(e.weight, sorted[Len(sorted)].weight)
         THEN Append(InsertDesc_TiesFirst(SubSeq(sorted, 1, Len(sorted) - 1), e),
                     sorted[Len(sorted)])
         ELSE Append(sorted, e)

\* v.sort(key=lambda x: -x[1]): a stable sort, heaviest first
RECURSIVE InsertDesc(_, _)
InsertDesc(sorted, e) ==
    IF sorted = <<>> THEN <<e>>
    ELSE IF RGt(e.weight, sorted[Len(sorted)].weight)
         THEN Append(InsertDesc(SubSeq(sorted, 1, Len(sorted) - 1), e),
                     sorted[Len(sorted)])
         ELSE Append(sorted, e)

RECURSIVE SortDesc(_)
SortDesc(v) ==
    IF v = <<>> THEN <<>>
    ELSE InsertDesc(SortDesc(SubSeq(v, 1, Len(v) - 1)), v[Len(v)])

\* fix_too_many_weights, one vertex: sort, del v[15:], renormalize
FixVertex(v) ==
    IF Len(v) > MaxWeights
    THEN LET kept == SubSeq(SortDesc(v), 1, MaxWeights)
             total == WeightSum(kept)
         IN  IF total.n # 0
             THEN [i \in 1..Len(kept) |->
                      [bone |-> kept[i].bone, weight |-> RDiv(kept[i].weight, total)]]
             ELSE kept
    ELSE v

\* fix_too_many_weights: the fixed lists and b_any_bad
fix_too_many_weights(ws) ==
    [weights |-> [i \in 1..Len(ws) |-> FixVertex(ws[i])],
     b_any_bad |-> \E i \in 1..Len(ws) : Len(ws[i]) > MaxWeights]

\* group_map: per vertex group <<bone index>>, or <<>> for None
group_map(groups, table) ==
    [g \in 1..Len(groups) |->
        IF groups[g] \in Range(table) THEN <<IndexOf(table, groups[g])>> ELSE <<>>]

\* the generator of lines 182-186, one vertex
Contributions(vert, gmap, threshold) ==
    LET usable == SelectSeq(vert, LAMBDA g :
                      gmap[g.group + 1] # <<>> /\ RGeq(g.weight, Weight(threshold)))
    IN  [i \in 1..Len(usable) |->
            [bone |-> gmap[usable[i].group + 1][1], weight |-> usable[i].weight]]

\* lines 188-191: default for empty weights
DefaultEmpty_Missing(ws) == ws

DefaultEmpty(ws) ==
    [i \in 1..Len(ws) |->
        IF ws[i] = <<>> THEN <<[bone |-> 0, weight |-> One]>> ELSE ws[i]]

\* add_weights: the weights it leaves and whether the trim notice is printed
add_weights(groups, verts, table, threshold) ==
    IF groups = <<>>
    THEN [weights |-> [i \in 1..Len(verts) |-> <<[bone |-> 0, weight |-> One]>>],
          b_any_bad |-> FALSE]
    ELSE LET gmap == group_map(groups, table)
             filled == [i \in 1..Len(verts) |-> Contributions(verts[i], gmap, threshold)]
         IN  fix_too_many_weights(DefaultEmpty(filled))

\* Inputs: the object's vertex groups
GroupLayouts == {"bones", "reversed", "extra_first", "no_bones"}

GroupNames(g, layout) ==
    [i \in 1..g |->
        CASE layout = "bones" -> BoneName(i)
          [] layout = "reversed" -> BoneName(g + 1 - i)
          [] layout = "extra_first" -> IF i = 1 THEN 999 ELSE BoneName(i - 1)
          [] OTHER -> 900 + i]

GroupCounts == {0, SmallBones, MaxBones}

\* Inputs: a vertex in the first k groups of the object, weights by pattern
WeightPatterns == {"zero", "flat", "scenario", "cycle", "heavy_last"}

PatternWeight(p, i) ==
    CASE p = "zero" -> 0
      [] p = "flat" -> 3
      [] p = "scenario" -> IF i = 1 THEN 5 ELSE 3
      [] p = "cycle" -> i % 4
      [] OTHER -> IF i <= MaxWeights THEN 0 ELSE 5

VertexGroups(k, p) ==
    [i \in 1..k |-> [group |-> i - 1, weight |-> Weight(PatternWeight(p, i))]]

\* A second vertex of the mesh
Companions(g) ==
    {<<>>} \cup {<<VertexGroups(Min(g, 2), "flat")>>}

Thresholds == {0, 4}

\* save, lines 408-438
SaveBones ==
    /\ NotWgt
    /\ xpc = "start"
    /\ \E use_arm \in BOOLEAN, arm \in ArmatureSet \cup {<<>>} :
         /\ use_armature' = use_arm
         /\ armature' = arm
         /\ model_bones' = SaveBoneTable(use_arm, arm).bones
         /\ bone_table' = SaveBoneTable(use_arm, arm).bone_table
    /\ xpc' = "bones_done"
    /\ UNCHANGED <<sharedvars, vertex_groups, vertices, weight_threshold, weights>>

\* save, lines 441-445: mesh.add_weights(bone_table, weight_threshold)
AddWeights ==
    /\ NotWgt
    /\ xpc = "bones_done"
    /\ \E g \in GroupCounts, layout \in GroupLayouts, p \in WeightPatterns,
          th \in Thresholds :
         \E k \in 0..g, rest \in Companions(g) :
            LET groups == GroupNames(g, layout)
                verts == <<VertexGroups(k, p)>> \o rest
                r == add_weights(groups, verts, bone_table, th)
            IN  /\ vertex_groups' = groups
                /\ vertices' = verts
                /\ weight_threshold' = th
                /\ weights' = r.weights
                /\ printed' = IF r.b_any_bad
                              THEN printed \cup {"trimmed lowest weights"}
                              ELSE printed
    /\ xpc' = "weights_done"
    /\ UNCHANGED <<warning_messages, popup, use_armature, armature, model_bones,
                   bone_table>>

WgtInit == Idle

WgtNext ==
    \/ SaveBones
    \/ AddWeights

SpecWeights == WgtInit /\ [][WgtNext]_vars

-----------------------------------------------------------------------------
(* Claims about the weight resolver, checked under SpecWeights *)

\* The contributions vertex i has after filtering, counted on the inputs: the
\* groups of the vertex that name a bone of the table and reach the threshold
Usable(i) ==
    {j \in 1..Len(vertices[i]) :
        /\ vertex_groups[vertices[i][j].group + 1] \in Range(bone_table)
        /\ vertices[i][j].weight.n >= weight_threshold}

\* C5: a vertex with more than 15 contributions after filtering is left with
\* at most 15 weights, none negative, that sum to 1; when the kept weights sum
\* to zero each of them is 1/15.
C5_TrimmedWeightsNormalized ==
    xpc = "weights_done" =>
        \A i \in 1..Len(vertices) :
            Cardinality(Usable(i)) > MaxWeights =>
                /\ Len(weights[i]) <= MaxWeights
                /\ \A j \in 1..Len(weights[i]) :
                     /\ weights[i][j].weight.n >= 0
                     /\ weights[i][j].weight.d > 0
                     /\ (\A u \in Usable(i) : vertices[i][u].weight.n = 0) =>
                            REq(weights[i][j].weight, [n |-> 1, d |-> MaxWeights])
                /\ REq(WeightSum(weights[i]), One)

\* C6: the weight list add_weights leaves for a vertex sums to 1 also when the
\* vertex has 15 or fewer contributions (no trimming).
C6_UntrimmedWeightsSumToOne ==
    xpc = "weights_done" =>
        \A i \in 1..Len(vertices) :
            Cardinality(Usable(i)) <= MaxWeights =>
                REq(WeightSum(weights[i]), One)

\* C19: a vertex with zero usable weights and a vertex with more than 15
\* weight contributions each add a warning to shared.warning_messages, and
\* the fallback is applied: the default weight, or at most 15 weights.
C19_WeightIssuesAddWarnings ==
    xpc = "weights_done" =>
        \A i \in 1..Len(vertices) :
            /\ Usable(i) = {} =>
                  /\ weights[i] = <<[bone |-> 0, weight |-> One]>>
                  /\ Len(warning_messages) >= 1
            /\ Cardinality(Usable(i)) > MaxWeights =>
                  /\ Len(weights[i]) <= MaxWeights
                  /\ Len(warning_messages) >= 1

\* The place contribution j of vertex i takes when the contributions are put
\* heaviest first, equal weights in their original order
Rank(i, j) ==
    Cardinality({u \in Usable(i) :
        \/ RGt(vertices[i][u].weight, vertices[i][j].weight)
        \/ (REq(vertices[i][u].weight, vertices[i][j].weight) /\ u <= j)})

\* Ten times the total of the MaxWeights first-placed contributions of vertex i
KeptTotal(i) ==
    LET F[k \in 0..Len(vertices[i])] ==
            IF k = 0 THEN 0
            ELSE F[k - 1] + (IF k \in Usable(i) /\ Rank(i, k) <= MaxWeights
                             THEN vertices[i][k].weight.n ELSE 0)
    IN  F[Len(vertices[i])]

BoneOfGroup(i, j) == IndexOf(bone_table, vertex_groups[vertices[i][j].group + 1])

\* C25: trimming is deterministic and stable. A vertex with more than 15
\* contributions keeps the 15 heaviest in descending weight order, equal
\* weights in their original order; a vertex with 15 or fewer keeps its list
\* as it was; fix_too_many_weights returns True (the trim notice is printed)
\* exactly when some vertex was trimmed.
C25_TrimIsStable ==
    xpc = "weights_done" =>
        /\ \A i \in 1..Len(vertices) :
             IF Cardinality(Usable(i)) > MaxWeights
             THEN /\ Len(weights[i]) = MaxWeights
                  /\ \A j \in Usable(i) :
                       Rank(i, j) <= MaxWeights =>
                           /\ weights[i][Rank(i, j)].bone = BoneOfGroup(i, j)
                           /\ IF KeptTotal(i) > 0
                              THEN REq(weights[i][Rank(i, j)].weight,
                                       [n |-> vertices[i][j].weight.n, d |-> KeptTotal(i)])
                              ELSE REq(weights[i][Rank(i, j)].weight, vertices[i][j].weight)
             ELSE Usable(i) # {} =>
                  /\ Len(weights[i]) = Cardinality(Usable(i))
                  /\ \A j \in Usable(i) :
                       weights[i][Cardinality({u \in Usable(i) : u <= j})] =
                           [bone |-> BoneOfGroup(i, j), weight |-> vertices[i][j].weight]
        /\ ("trimmed lowest weights" \in printed) <=>
               (\E i \in 1..Len(vertices) : Cardinality(Usable(i)) > MaxWeights)

\* A trimmed vertex whose dropped contribution is as heavy as one it keeps
C25_Witness ==
    /\ xpc = "weights_done"
    /\ Cardinality(Usable(1)) > MaxWeights
    /\ \E j \in Usable(1) :
         /\ Rank(1, j) > MaxWeights
         /\ \E u \in Usable(1) : u < j /\ REq(vertices[1][u].weight, vertices[1][j].weight)
    /\ Len(weights[1]) = MaxWeights
    /\ "trimmed lowest weights" \in printed

\* C7: after add_weights no vertex has an empty weight list; a vertex without
\* any usable contribution is bound with weight 1 to bone 0, and bone 0 of the
\* exported bone table is a root (parent -1).
C7_EmptyWeightsBindToRoot ==
    xpc = "weights_done" =>
        /\ Len(weights) = Len(vertices)
        /\ \A i \in 1..Len(vertices) :
             /\ weights[i] # <<>>
             /\ (vertex_groups = <<>> \/ Usable(i) = {}) =>
                    /\ weights[i] = <<[bone |-> 0, weight |-> One]>>
                    /\ Len(model_bones) >= 1
                    /\ model_bones[1].parent = -1
                    /\ bone_table[1] = model_bones[1].name

C7_Witness ==
    /\ xpc = "weights_done"
    /\ Len(model_bones) > 1
    /\ vertex_groups # <<>>
    /\ Len(vertices[1]) > 1
    /\ vertices[1][1].weight.n > 0
    /\ Usable(1) = {}
    /\ weights[1] = <<[bone |-> 0, weight |-> One]>>
    /\ model_bones[1].parent = -1

-----------------------------------------------------------------------------
(* export_xmodel.py: ExportMesh.__init__ (gen_material_indices) and         *)
(* to_xmodel_mesh                                                          *)
(*                                                                         *)
(* Vectors are integer triples, normals are axis vectors, the object       *)
(* matrix is the identity, a quarter turn about z or a uniform scale by 2  *)
(* with a translation                                                      *)

MaxPolys         == 2   \* polygons of a mesh
MaxMaterialIndex == 2   \* polygon.material_index ranges over 0..MaxMaterialIndex

Matrices == {"identity", "turn_z", "scale2_shift"}

\* self.matrix @ v
MatApply(m, v) ==
    CASE m = "identity" -> v
      [] m = "turn_z" -> <<0 - v[2], v[1], v[3]>>
      [] OTHER -> <<2 * v[1] + 1, 2 * v[2], 2 * v[3]>>

\* (self.matrix.to_3x3() @ loop.normal).normalize(), on axis vectors
NormalTransform(m, n) ==
    CASE m = "identity" -> n
      [] m = "turn_z" -> <<0 - n[2], n[1], n[3]>>
      [] OTHER -> n

\* gen_material_indices with the slot's own index kept as the model index
gen_material_indices_SlotIndex(mesh_mats, map, model_mats) ==
    [materials |-> [i \in 1..Len(mesh_mats) |-> i - 1],
     model_materials |->
        model_mats \o SelectSeq(mesh_mats, LAMBDA x : x \notin Range(model_mats))]

\* gen_material_indices: the mesh's slot -> model index map, and the grown
\* model material list
RECURSIVE gen_material_indices(_, _, _)
gen_material_indices(mesh_mats, map, model_mats) ==
    IF Len(map) = Len(mesh_mats) THEN [materials |-> map, model_materials |-> model_mats]
    ELSE LET material == mesh_mats[Len(map) + 1]
         IN  IF material \in Range(model_mats)
             THEN gen_material_indices(mesh_mats,
                      Append(map, IndexOf(model_mats, material)), model_mats)
             ELSE gen_material_indices(mesh_mats,
                      Append(map, Len(model_mats)), Append(model_mats, material))

\* lines 221-233: the colour layer and the alpha layer that are read
\* (0 stands for None, c > 0 for self.mesh.vertex_colors[c - 1])
vc_layer(m, args) == IF args.use_vtx_cols THEN m.active_color ELSE 0

vca_layer(m, args) ==
    IF ~args.use_alpha THEN 0
    ELSE IF args.use_alpha_mode = "PRIMARY" THEN vc_layer(m, args)
    ELSE IF args.use_alpha_mode = "SECONDARY"
         THEN LET others == {c \in 1..Len(m.colors) : c # vc_layer(m, args)}
              IN  IF others = {} THEN 0
                  ELSE CHOOSE c \in others : \A o \in others : c <= o
         ELSE 0

\* lines 264-272: rgba of the loop
LoopColor(m, args, loop_index) ==
    IF vca_layer(m, args) # 0 THEN m.colors[vca_layer(m, args)][loop_index + 1]
    ELSE IF vc_layer(m, args) # 0 THEN m.colors[vc_layer(m, args)][loop_index + 1]
    ELSE <<0, 0, 0, 0>>

\* lines 258-284: XModel.FaceVertex of the loop
FaceVertex(m, matrix, args, loop_index) ==
    [vertex |-> m.loops[loop_index + 1].vertex_index,
     normal |-> NormalTransform(matrix, m.loops[loop_index + 1].normal),
     color |-> LoopColor(m, args, loop_index),
     uv |-> <<m.uv[loop_index + 1][1], 1 - m.uv[loop_index + 1][2]>>]

\* line 287: face.indices[1], face.indices[2] = face.indices[2], face.indices[1]
FixWinding_Kept(indices) == indices

FixWinding(indices) == <<indices[1], indices[3], indices[2]>>

\* lines 249-289: the faces of the polygons whose material index is valid
RECURSIVE ExportFaces(_, _, _, _, _)
ExportFaces(m, matrix, args, map, done) ==
    IF done = Len(m.polygons) THEN <<>>
    ELSE LET polygon == m.polygons[done + 1]
             rest == ExportFaces(m, matrix, args, map, done + 1)
         IN  IF polygon.material_index >= Len(map)
             THEN rest
             ELSE <<[material_id |-> map[polygon.material_index + 1],
                     indices |-> FixWinding(
                         [i \in 1..3 |->
                             FaceVertex(m, matrix, args, polygon.loop_indices[i])])]>>
                  \o rest

\* to_xmodel_mesh: the XModel.Mesh, and invalid_mtl_idxs_encountered
to_xmodel_mesh(m, matrix, ws, map, args) ==
    [mesh |->
        [name |-> m.name,
         verts |-> [v \in 1..Len(m.verts) |->
                      [offset |-> MatApply(matrix,
                                     [c \in 1..3 |-> m.verts[v][c] * args.global_scale]),
                       weights |-> ws[v]]],
         faces |-> ExportFaces(m, matrix, args, map, 0)],
     invalid_mtl_idxs_encountered |->
        \E p \in 1..Len(m.polygons) : m.polygons[p].material_index >= Len(map)]

\* Inputs: a triangulated mesh of 4 vertices; loop li of polygon p is 3p + i
Axis(i) == [c \in 1..3 |-> IF c = i THEN 1 ELSE 0]

Corners(p) == IF p % 2 = 0 THEN <<0, 1, 2>> ELSE <<2, 1, 3>>

MeshOf(mat_idx, mats, layers, active) ==
    LET np == Len(mat_idx)
    IN  [name |-> "mesh",
         verts |-> [v \in 1..4 |-> <<v, v % 2, 1>>],
         loops |-> [l \in 1..(3 * np) |->
                      [vertex_index |-> Corners((l - 1) \div 3)[((l - 1) % 3) + 1],
                       normal |-> Axis(((l - 1) % 3) + 1)]],
         uv |-> [l \in 1..(3 * np) |-> <<l % 2, (l \div 2) % 2>>],
         colors |-> [c \in 1..layers |-> [l \in 1..(3 * np) |-> <<l, c, 0, l + c>>]],
         active_color |-> active,
         polygons |-> [p \in 1..np |->
                         [material_index |-> mat_idx[p],
                          loop_indices |-> <<3 * (p - 1), 3 * (p - 1) + 1, 3 * (p - 1) + 2>>]],
         materials |-> mats]

PolygonMaterials ==
    {mi \in SeqsUpTo(0..MaxMaterialIndex, MaxPolys) : Len(mi) >= 1}

MeshMaterialSets == {<<>>, <<"mtl_a">>, <<"mtl_a", "mtl_b">>, <<"mtl_b", "mtl_a">>}

ModelMaterialSets == {<<>>, <<"mtl_b">>}

ColorLayerCounts == {0, 1, 2}

ConvertArgs ==
    [use_vtx_cols : BOOLEAN, use_alpha : BOOLEAN,
     use_alpha_mode : {"PRIMARY", "SECONDARY"}, global_scale : {1, 2}]

\* save, line 406: meshes.append(ExportMesh(obj, mesh, materials))
NewExportMesh ==
    /\ NotFace
    /\ fpc = "start"
    /\ \E mi \in PolygonMaterials, mats \in MeshMaterialSets,
          before \in ModelMaterialSets, layers \in ColorLayerCounts,
          matrix \in Matrices :
         LET m == MeshOf(mi, mats, layers, IF layers = 0 THEN 0 ELSE 1)
             r == gen_material_indices(mats, <<>>, before)
         IN  /\ mesh' = m
             /\ obj_matrix' = matrix
             /\ weights' = [v \in 1..Len(m.verts) |-> <<>>]
             /\ mesh_material_map' = r.materials
             /\ model_materials' = r.model_materials
    /\ fpc' = "mesh_ready"
    /\ UNCHANGED <<sharedvars, convert_args, xmesh>>

\* save, lines 444-453: add_weights, then to_xmodel_mesh (an object without
\* vertex groups, exported against the dummy bone)
ConvertMesh ==
    /\ NotFace
    /\ fpc = "mesh_ready"
    /\ \E args \in ConvertArgs :
         LET w == add_weights(<<>>, mesh.verts, <<tag_origin>>, 0)
             r == to_xmodel_mesh(mesh, obj_matrix, w.weights, mesh_material_map, args)
         IN  /\ convert_args' = args
             /\ weights' = w.weights
             /\ xmesh' = r.mesh
             /\ warning_messages' =
                    IF r.invalid_mtl_idxs_encountered
                    THEN add_warning(warning_messages, "Skipped one or more polys")
                    ELSE warning_messages
    /\ fpc' = "converted"
    /\ UNCHANGED <<printed, popup, mesh, obj_matrix, model_materials,
                   mesh_material_map>>

FaceInit == Idle

FaceNext ==
    \/ NewExportMesh
    \/ ConvertMesh

SpecFaces == FaceInit /\ [][FaceNext]_vars

-----------------------------------------------------------------------------
(* Claims about to_xmodel_mesh, checked under SpecFaces *)

\* The polygons that are exported, in mesh order
KeptPolygons ==
    SelectSeq(mesh.polygons, LAMBDA q : q.material_index < Len(mesh.materials))

\* C8: face winding. A triangle whose loops are (A, B, C) is stored with its
\* FaceVertex entries in the order (A, C, B), each with the vertex index,
\* normal, colour and uv of its own loop.
C8_Entry(fv, loop_index) ==
    /\ fv.vertex = mesh.loops[loop_index + 1].vertex_index
    /\ fv.normal = NormalTransform(obj_matrix, mesh.loops[loop_index + 1].normal)
    /\ fv.uv[1] = mesh.uv[loop_index + 1][1]
    /\ fv.uv[2] = 1 - mesh.uv[loop_index + 1][2]
    /\ fv.color = LoopColor(mesh, convert_args, loop_index)

C8_FaceWinding ==
    fpc = "converted" =>
        /\ Len(xmesh.faces) = Len(KeptPolygons)
        /\ \A f \in 1..Len(xmesh.faces) :
             LET A == KeptPolygons[f].loop_indices[1]
                 B == KeptPolygons[f].loop_indices[2]
                 C == KeptPolygons[f].loop_indices[3]
             IN  /\ Len(xmesh.faces[f].indices) = 3
                 /\ C8_Entry(xmesh.faces[f].indices[1], A)
                 /\ C8_Entry(xmesh.faces[f].indices[2], C)
                 /\ C8_Entry(xmesh.faces[f].indices[3], B)

C8_Witness ==
    /\ fpc = "converted"
    /\ Len(xmesh.faces) = 2
    /\ obj_matrix = "turn_z"
    /\ convert_args.use_vtx_cols /\ Len(mesh.colors) = 2
    /\ xmesh.faces[2].indices[1].vertex = 2
    /\ xmesh.faces[2].indices[2].vertex = 3
    /\ xmesh.faces[2].indices[3].vertex = 1
    /\ xmesh.faces[2].indices[2].color # xmesh.faces[2].indices[3].color
    /\ xmesh.faces[2].indices[2].normal # xmesh.faces[2].indices[3].normal

(***************************************************************************)
(* XModel import: __init__.py COD_MT_import_xmodel.execute and             *)
(* import_xmodel.py load                                                   *)
(***************************************************************************)

MaxImportFaces == 2
MaxImportBones == 2
MaxMaterialId == 2

\* One entry of face.indices as the reader leaves it; the uv is (u, v)
FaceIndex(v) == [vertex |-> v, uv |-> <<v % 2, (v + 1) % 2>>]

\* Triangles over four vertices; the second uses the vertices of the first
TriangleVerts == {<<0, 1, 2>>, <<0, 2, 1>>, <<1, 2, 3>>}

ImportTri(m, t) ==
    [material_id |-> m, indices |-> [k \in 1..3 |-> FaceIndex(t[k])]]

ImportTris == {ImportTri(m, t) : m \in 0..MaxMaterialId, t \in TriangleVerts}

MaterialCounts == 0..2

\* model.bones: a name and the parent index the file gives, -1 for none
ImportBone(i, p) == [name |-> BoneName(i), parent |-> p]

ImportBoneTables ==
    UNION {{[i \in 1..n |-> ImportBone(i - 1, pp[i])] : pp \in [1..n -> -1..(n - 1)]}
           : n \in 1..MaxImportBones}

RootOnly == <<ImportBone(0, -1)>>

\* The models LoadModelFile can hand to load: meshes of every kind over a
\* one-bone skeleton, and skeletons of every kind under a one-face mesh
ImportModels ==
    {[materials |-> [i \in 1..mc |-> i], vert_count |-> 4, faces |-> fs,
      bones |-> RootOnly]
        : mc \in MaterialCounts,
          fs \in UNION {[1..n -> ImportTris] : n \in 1..MaxImportFaces}}
    \cup
    {[materials |-> <<1>>, vert_count |-> 4,
      faces |-> <<ImportTri(0, <<0, 1, 2>>)>>, bones |-> bs]
        : bs \in ImportBoneTables}

\* Scales are counted in hundredths: 100 is the default 1.0
ImportArgs ==
    [use_armature : BOOLEAN, use_parents : BOOLEAN, use_dup_tris : BOOLEAN,
     apply_unit_scale : BOOLEAN, global_scale : {100, 250}]

\* load, lines 228-231: the winding order fix, in place on face.indices
ImportWinding(face) ==
    [face EXCEPT !.indices = <<face.indices[1], face.indices[3], face.indices[2]>>]

FaceVerts(face) == [k \in 1..3 |-> face.indices[k].vertex]

\* bm.faces.new raises ValueError for a face over the vertices of an
\* existing one
FaceExists(faces, verts) ==
    \E i \in 1..Len(faces) : Range(faces[i].verts) = Range(verts)

\* setup_tri(f): material_usage_counts[material_index] += 1 raises IndexError
\* for a material_id the materials list does not have
setup_tri(st, face) ==
    IF face.material_id >= Len(st.counts)
    THEN [st EXCEPT !.raised = "IndexError"]
    ELSE [st EXCEPT
            !.faces = Append(@, [verts |-> FaceVerts(face),
                                 material_index |-> face.material_id,
                                 uvs |-> [k \in 1..3 |->
                                            <<face.indices[k].uv[1],
                                              1 - face.indices[k].uv[2]>>]]),
            !.counts[face.material_id + 1] = @ + 1]

\* load, lines 246-251: the vertices of a duplicate face move to copies
RECURSIVE RemapDup(_, _, _)
RemapDup(st, face, k) ==
    IF k > 3 THEN [st |-> st, face |-> face]
    ELSE LET vert == face.indices[k].vertex
             st1 == IF st.mapping[vert + 1] = -1
                    THEN [st EXCEPT
                            !.mapping[vert + 1] = Len(st.dup_verts) + Len(st.mapping),
                            !.dup_verts = Append(@, vert)]
                    ELSE st
         IN  RemapDup(st1, [face EXCEPT !.indices[k].vertex = st1.mapping[vert + 1]],
                      k + 1)

\* load, lines 227-253: the loop over sub_mesh.faces
RECURSIVE FirstPass(_, _, _)
FirstPass(st, faces, i) ==
    IF st.raised # "none" \/ i > Len(faces) THEN st
    ELSE LET face == ImportWinding(faces[i])
         IN  IF FaceExists(st.faces, FaceVerts(face))
             THEN LET r == RemapDup(st, face, 1)
                  IN  FirstPass([r.st EXCEPT !.dup_faces = Append(@, r.face)],
                                faces, i + 1)
             ELSE FirstPass(setup_tri(st, face), faces, i + 1)

\* load, lines 264-271: the loop over dup_faces
RECURSIVE SecondPass(_, _)
SecondPass(st, i) ==
    IF st.raised # "none" \/ i > Len(st.dup_faces) THEN st
    ELSE LET face == st.dup_faces[i]
         IN  IF FaceExists(st.faces, FaceVerts(face))
             THEN SecondPass(st, i + 1)
             ELSE SecondPass(setup_tri(st, face), i + 1)

ImportFaces(mdl, args) ==
    LET st0 == [faces |-> <<>>, counts |-> [i \in 1..Len(mdl.materials) |-> 0],
                dup_faces |-> <<>>, dup_verts |-> <<>>,
                mapping |-> [i \in 1..mdl.vert_count |-> -1], raised |-> "none"]
        st1 == FirstPass(st0, mdl.faces, 1)
    IN  IF args.use_dup_tris THEN SecondPass(st1, 1) ELSE st1

\* load, lines 382-397: the loop over model.bones.  edit_bones[bone.parent]
\* raises IndexError past the bones created so far
RECURSIVE ImportBones(_, _, _, _)
ImportBones(bones, use_parents, made, i) ==
    IF i > Len(bones) THEN [edit_bones |-> made, raised |-> "none"]
    ELSE LET bone == bones[i]
             new == Append(made, [name |-> bone.name, parent |-> -1])
         IN  IF bone.parent = -1
             THEN ImportBones(bones, use_parents, new, i + 1)
             ELSE IF bone.parent >= Len(new)
             THEN [edit_bones |-> new, raised |-> "IndexError"]
             ELSE ImportBones(bones, use_parents,
                              IF use_parents
                              THEN [new EXCEPT ![i].parent = bone.parent]
                              ELSE new,
                              i + 1)

\* shared.py: the attributes of the module that load can reach
SharedAttributes ==
    {"timef", "gather_exportable_objects", "apply_cm_to_inch_scale",
     "apply_inch_to_cm_scale", "process_filepath", "get_metadata_string",
     "show_warnings", "add_warning"}

\* shared.apply_inch_to_cm_scale(scale): scale * INCH_TO_CM, in hundredths
apply_inch_to_cm_scale(scale) == (scale * 254) \div 100

\* shared.apply_cm_to_inch_scale(scale): scale * CM_TO_INCH, in hundredths
apply_cm_to_inch_scale(scale) == (scale * 3937) \div 10000

\* An exception raised inside load leaves execute: nothing catches it
ImportRaise(e) ==
    /\ ipc' = "returned"
    /\ op_result' = "EXCEPTION"
    /\ op_error' = e

\* execute, lines 172-180, and load up to the materials: the operator is
\* invoked, load settles the scale (lines 72-76) and the reader fills the
\* model. shared.calculate_unit_scale_factor is looked up on the module.
ImportExecute ==
    /\ NotImp
    /\ ipc = "start"
    /\ \E mdl \in ImportModels, args \in ImportArgs :
         /\ imodel' = mdl
         /\ import_args' = args
         /\ IF args.apply_unit_scale /\ "calculate_unit_scale_factor" \notin SharedAttributes
            THEN /\ ImportRaise("AttributeError")
                 /\ UNCHANGED target_scale
            ELSE /\ target_scale' = {IF args.apply_unit_scale
                                     THEN apply_inch_to_cm_scale(args.global_scale)
                                     ELSE args.global_scale}
                 /\ ipc' = "loaded"
                 /\ UNCHANGED <<op_result, op_error>>
    /\ UNCHANGED <<sharedvars, bm_faces, material_usage_counts, edit_bones>>

\* load, lines 169-291: the mesh
ImportMesh ==
    /\ NotImp
    /\ ipc = "loaded"
    /\ LET st == ImportFaces(imodel, import_args)
       IN  /\ bm_faces' = st.faces
           /\ material_usage_counts' = st.counts
           /\ IF st.raised # "none"
              THEN ImportRaise(st.raised)
              ELSE /\ ipc' = "meshed"
                   /\ UNCHANGED <<op_result, op_error>>
    /\ UNCHANGED <<sharedvars, imodel, import_args, target_scale, edit_bones>>

\* load, lines 368-405: the skeleton
ImportArmature ==
    /\ NotImp
    /\ ipc = "meshed"
    /\ LET r == IF import_args.use_armature
                THEN ImportBones(imodel.bones, import_args.use_parents, <<>>, 1)
                ELSE [edit_bones |-> <<>>, raised |-> "none"]
       IN  /\ edit_bones' = r.edit_bones
           /\ IF r.raised # "none"
              THEN ImportRaise(r.raised)
              ELSE /\ ipc' = "built"
                   /\ UNCHANGED <<op_result, op_error>>
    /\ UNCHANGED <<sharedvars, imodel, import_args, target_scale, bm_faces, material_usage_counts>>

\* execute, lines 182-190: load returned None
ImportReturn ==
    /\ NotImp
    /\ ipc = "built"
    /\ op_result' = "FINISHED"
    /\ popup' = show_warnings_popup(warning_messages, popup)
    /\ warning_messages' = show_warnings_left(warning_messages)
    /\ ipc' = "returned"
    /\ UNCHANGED <<printed, imodel, import_args, target_scale, bm_faces, material_usage_counts,
                   edit_bones, op_error>>

ImpInit == Idle

ImpNext ==
    \/ ImportExecute
    \/ ImportMesh
    \/ ImportArmature
    \/ ImportReturn

SpecImport == ImpInit /\ [][ImpNext]_vars

\* Every parent index is -1 or the index of an earlier bone
TopologicallyValid(bones) ==
    \A i \in 1..Len(bones) : bones[i].parent = -1 \/ bones[i].parent < i - 1

MaterialIdsInRange(mdl) ==
    \A i \in 1..Len(mdl.faces) : mdl.faces[i].material_id < Len(mdl.materials)

HasMaterial(mdl, face) == face.material_id < Len(mdl.materials)

\* The model without the faces whose material the list does not have
WithoutInvalidFaces(mdl) ==
    [mdl EXCEPT !.faces = SelectSeq(@, LAMBDA face : HasMaterial(mdl, face))]

\* C9: every bone table the import consumes has each parent index -1 or
\* smaller than the bone's own index: a table that violates this is rejected
\* with a MalformedStream failure result, it is neither linked nor does the
\* import crash on it.
C9_ImportRejectsInvalidBoneTable ==
    (/\ ipc = "returned"
     /\ import_args.use_armature
     /\ ~import_args.apply_unit_scale
     /\ MaterialIdsInRange(imodel)
     /\ ~TopologicallyValid(imodel.bones))
        => /\ op_result = "CANCELLED"
           /\ op_error = "MalformedStream"

\* C10: a face whose material index lies outside the material list is
\* dropped with a warning, the other faces are imported and the operation
\* completes.
C10_ImportDropsInvalidFace ==
    (/\ ipc = "returned"
     /\ ~import_args.apply_unit_scale
     /\ ~MaterialIdsInRange(imodel)
     /\ TopologicallyValid(imodel.bones))
        => /\ op_result = "FINISHED"
           /\ bm_faces = ImportFaces(WithoutInvalidFaces(imodel), import_args).faces
           /\ Len(popup) > 0

\* C22: with Apply Unit Scale enabled XModel import multiplies the user scale
\* by the inch-to-centimetre factor, with it disabled the user scale is used
\* unchanged, and either way the operation goes on to read the model.
C22_UnitScaleApplied ==
    ipc # "start" =>
        /\ op_error # "AttributeError"
        /\ target_scale = {IF import_args.apply_unit_scale
                           THEN apply_inch_to_cm_scale(import_args.global_scale)
                           ELSE import_args.global_scale}

-----------------------------------------------------------------------------
(* export_xmodel.py: sanitize_material_name                                *)
(*                                                                         *)
(* A name is a sequence of one-character strings                           *)

MaxNameLen == 3

NameAlphabet == {"a", "B", "7", "_", "-", " "}

MaterialNames == {n \in SeqsUpTo(NameAlphabet, MaxNameLen) : Len(n) >= 1}

\* str.lower() on the alphabet
Lower(c) == IF c = "B" THEN "b" ELSE c

\* [a-z0-9]
IsLowerAlnum(c) == c \in {"a", "b", "7"}

\* re.sub(r'[^a-z0-9]+', '_', s): each maximal run outside [a-z0-9] becomes
\* one underscore
RECURSIVE SubNonAlnumRuns(_, _)
SubNonAlnumRuns(s, i) ==
    IF i > Len(s) THEN <<>>
    ELSE IF IsLowerAlnum(s[i]) THEN <<s[i]>> \o SubNonAlnumRuns(s, i + 1)
    ELSE IF i > 1 /\ ~IsLowerAlnum(s[i - 1]) THEN SubNonAlnumRuns(s, i + 1)
    ELSE <<"_">> \o SubNonAlnumRuns(s, i + 1)

\* re.sub(r'_+', '_', s): each run of underscores becomes one underscore
RECURSIVE SubUnderscoreRuns(_, _)
SubUnderscoreRuns(s, i) ==
    IF i > Len(s) THEN <<>>
    ELSE IF s[i] = "_" /\ i > 1 /\ s[i - 1] = "_" THEN SubUnderscoreRuns(s, i + 1)
    ELSE <<s[i]>> \o SubUnderscoreRuns(s, i + 1)

\* str.strip('_')
RECURSIVE StripUnderscores(_)
StripUnderscores(s) ==
    IF Len(s) = 0 THEN s
    ELSE IF s[1] = "_" THEN StripUnderscores(Tail(s))
    ELSE IF s[Len(s)] = "_" THEN StripUnderscores(SubSeq(s, 1, Len(s) - 1))
    ELSE s

sanitize_material_name(n) ==
    LET lowered == [i \in 1..Len(n) |-> Lower(n[i])]
        subbed == SubNonAlnumRuns(lowered, 1)
    IN  StripUnderscores(SubUnderscoreRuns(subbed, 1))

\* A material with this name reaches the materials loop of save
SanitizeCall ==
    /\ NotSan
    /\ sanpc = "start"
    /\ \E n \in MaterialNames : material_name' = n
    /\ sanpc' = "called"
    /\ UNCHANGED <<sharedvars, sanitized>>

SanitizeReturn ==
    /\ NotSan
    /\ sanpc = "called"
    /\ sanitized' = sanitize_material_name(material_name)
    /\ sanpc' = "returned"
    /\ UNCHANGED <<sharedvars, material_name>>

SanInit == Idle

SanNext ==
    \/ SanitizeCall
    \/ SanitizeReturn

SpecSanitize == SanInit /\ [][SanNext]_vars

\* C12: for every material name, sanitize_material_name returns a non-empty
\* name made of the characters a-z, 0-9 and underscore, with no two
\* underscores in a row.
C12_SanitizedNameWellFormed ==
    sanpc = "returned" =>
        /\ Len(sanitized) >= 1
        /\ \A i \in 1..Len(sanitized) : IsLowerAlnum(sanitized[i]) \/ sanitized[i] = "_"
        /\ \A i \in 1..(Len(sanitized) - 1) :
              ~(sanitized[i] = "_" /\ sanitized[i + 1] = "_")

-----------------------------------------------------------------------------
(* export_xmodel.py save: the ExportMesh objects share one material list   *)

MaxMeshes == 2

\* bpy materials, by name; NoMaterial is the None of an empty slot
Material(n) == [is_none |-> FALSE, name |-> n]
NoMaterial == [is_none |-> TRUE, name |-> <<>>]

MaterialA == Material(<<"a">>)
MaterialB == Material(<<"B", " ", "7">>)

\* mesh.materials
MaterialSlots ==
    {<<MaterialA>>, <<MaterialB>>, <<MaterialA, MaterialB>>, <<MaterialB, MaterialA>>,
     <<MaterialA, MaterialA>>, <<NoMaterial>>, <<MaterialB, NoMaterial>>}

\* polygon.material_index of the polygons
PolygonSlots == {<<0>>, <<0, 1>>, <<1, 2>>}

SaveArgs ==
    {a \in ConvertArgs : ~a.use_alpha /\ a.use_alpha_mode = "PRIMARY" /\ a.global_scale = 1}

\* save, lines 372-406: one more object; ExportMesh(obj, mesh, materials)
SaveNewMesh ==
    /\ NotMat
    /\ matpc \in {"start", "gathering"}
    /\ Len(save_meshes) < MaxMeshes
    /\ \E mi \in PolygonSlots, mats \in MaterialSlots :
         LET r == gen_material_indices(mats, <<>>, save_materials)
         IN  /\ save_meshes' = Append(save_meshes,
                    [mesh |-> MeshOf(mi, mats, 1, 1), matrix |-> "identity",
                     materials |-> r.materials])
             /\ save_materials' = r.model_materials
    /\ matpc' = "gathering"
    /\ UNCHANGED <<sharedvars, xmodel_meshes, xmodel_materials, save_raised>>

\* The warnings of the meshes converted so far
RECURSIVE ConvertWarnings(_, _, _)
ConvertWarnings(msgs, converted, k) ==
    IF k > Len(converted) THEN msgs
    ELSE ConvertWarnings(
            IF converted[k].invalid_mtl_idxs_encountered
            THEN add_warning(msgs, "Skipped one or more polys")
            ELSE msgs,
            converted, k + 1)

\* save, lines 444-453: add_weights and to_xmodel_mesh for every mesh
SaveConvert ==
    /\ NotMat
    /\ matpc = "gathering"
    /\ \E args \in SaveArgs :
         LET converted ==
                [k \in 1..Len(save_meshes) |->
                    LET em == save_meshes[k]
                        w == add_weights(<<>>, em.mesh.verts, <<tag_origin>>, 0)
                    IN  to_xmodel_mesh(em.mesh, em.matrix, w.weights, em.materials, args)]
         IN  /\ xmodel_meshes' = [k \in 1..Len(save_meshes) |-> converted[k].mesh]
             /\ warning_messages' = ConvertWarnings(warning_messages, converted, 1)
    /\ matpc' = "converted"
    /\ UNCHANGED <<printed, popup, save_meshes, save_materials, xmodel_materials,
                   save_raised>>

\* save, lines 455-466: model.materials.  material_gen_image_dict reads
\* material.name, an AttributeError for the None of an empty slot
SaveMaterials ==
    /\ NotMat
    /\ matpc = "converted"
    /\ IF \E i \in 1..Len(save_materials) : save_materials[i].is_none
       THEN /\ save_raised' = "AttributeError"
            /\ matpc' = "raised"
            /\ UNCHANGED xmodel_materials
       ELSE /\ xmodel_materials' =
                  [i \in 1..Len(save_materials) |->
                      sanitize_material_name(save_materials[i].name)]
            /\ matpc' = "serializing"
            /\ UNCHANGED save_raised
    /\ UNCHANGED <<sharedvars, save_meshes, save_materials, xmodel_meshes>>

MatInit == Idle

MatNext ==
    \/ SaveNewMesh
    \/ SaveConvert
    \/ SaveMaterials

SpecMaterials == MatInit /\ [][MatNext]_vars

\* The polygons of an ExportMesh that get a face, in mesh order
SlotPolygons(em) ==
    SelectSeq(em.mesh.polygons, LAMBDA q : q.material_index < Len(em.mesh.materials))

\* Face i of mesh k carries the model index of its polygon's material
FaceMaterialDenotes(k, i) ==
    LET em == save_meshes[k]
        id == xmodel_meshes[k].faces[i].material_id
        material == em.mesh.materials[SlotPolygons(em)[i].material_index + 1]
    IN  /\ 0 <= id
        /\ id < Len(save_materials)
        /\ save_materials[id + 1] = material
        /\ matpc = "serializing" =>
              /\ Len(xmodel_materials) = Len(save_materials)
              /\ xmodel_materials[id + 1] = sanitize_material_name(material.name)

FacesDenote ==
    \A k \in 1..Len(xmodel_meshes) :
        /\ Len(xmodel_meshes[k].faces) = Len(SlotPolygons(save_meshes[k]))
        /\ \A i \in 1..Len(xmodel_meshes[k].faces) : FaceMaterialDenotes(k, i)

EachMaterialOnce ==
    \A i, j \in 1..Len(save_materials) :
        save_materials[i] = save_materials[j] => i = j

\* C11: every emitted face's material_id is an index into the model's
\* material list and denotes the material of the polygon's mesh-local slot;
\* the model list holds each material once; a later mesh neither moves the
\* materials already listed nor changes the indices of an earlier mesh.
C11_MaterialIndices ==
    [][/\ FacesDenote'
       /\ EachMaterialOnce'
       /\ SubSeq(save_materials', 1, Len(save_materials)) = save_materials
       /\ \A k \in 1..Len(save_meshes) :
             save_meshes'[k].materials = save_meshes[k].materials]_vars

\* Two meshes are serialized; the second lists the first one's material in
\* its second slot and its face gets the index the first mesh was given
C11_Witness ==
    /\ matpc = "serializing"
    /\ Len(save_meshes) = 2
    /\ save_meshes[1].mesh.materials = <<MaterialA>>
    /\ save_meshes[2].mesh.materials = <<MaterialB, MaterialA>>
    /\ Len(xmodel_meshes[2].faces) = 2
    /\ xmodel_meshes[2].faces[1].material_id = 1
    /\ xmodel_meshes[2].faces[2].material_id = 0

-----------------------------------------------------------------------------
(* XModel export: __init__.py COD_MT_export_xmodel.execute and the start   *)
(* of export_xmodel.py save                                                *)

MaxPending == 2

\* Python values with their type
PyStr(x) == [type |-> "str", str |-> x, int |-> 0]
PyInt(i) == [type |-> "int", str |-> "", int |-> i]

\* a < b: defined between two ints, TypeError between a str and an int
py_lt(a, b) ==
    IF a.type = "int" /\ b.type = "int"
    THEN [raised |-> "none", value |-> a.int < b.int]
    ELSE [raised |-> "TypeError", value |-> FALSE]

\* int(x)
py_int(x) ==
    IF x.type = "int" THEN x.int
    ELSE CASE x.str = "5" -> 5 [] x.str = "6" -> 6 [] OTHER -> 7

\* The identifiers of the format_version EnumProperty
FormatVersions == {PyStr("5"), PyStr("6"), PyStr("7")}

ObjectKinds == {"armature", "empty", "mesh_no_materials", "mesh_no_uvs", "mesh"}

IsMeshKind(k) == k \in {"mesh_no_materials", "mesh_no_uvs", "mesh"}

\* bpy.data.objects / context.selected_objects
ObjectLists ==
    {<<>>, <<"armature">>, <<"mesh">>, <<"mesh_no_uvs">>, <<"mesh_no_materials">>,
     <<"armature", "mesh">>, <<"mesh_no_materials", "mesh">>,
     <<"mesh_no_uvs", "mesh_no_materials">>, <<"empty", "mesh">>}

ExportScenes ==
    {sc \in [active_is_mesh : BOOLEAN, objects : ObjectLists,
             filepath_empty : BOOLEAN] :
        sc.active_is_mesh => \E i \in 1..Len(sc.objects) : IsMeshKind(sc.objects[i])}

\* gather_exportable_objects: the warnings it adds, object by object
RECURSIVE GatherWarnings(_, _, _)
GatherWarnings(msgs, objects, i) ==
    IF i > Len(objects) THEN msgs
    ELSE GatherWarnings(
            CASE objects[i] = "mesh_no_materials" -> add_warning(msgs, "has no materials")
              [] objects[i] = "mesh_no_uvs" -> add_warning(msgs, "has no valid UVs")
              [] OTHER -> msgs,
            objects, i + 1)

\* gather_exportable_objects: objs
Exportable(objects) == SelectSeq(objects, LAMBDA k : k = "mesh")

\* execute, lines 487-495: the operator is invoked and calls save
ExportExecute ==
    /\ NotExp
    /\ epc \in {"start", "returned"}
    /\ Len(warning_messages) <= MaxPending
    /\ \E sc \in ExportScenes, fv \in FormatVersions :
         /\ export_scene' = sc
         /\ export_kwargs' = [format_version |-> fv]
    /\ use_vtx_cols' = {}
    /\ save_result' = "unset"
    /\ export_result' = "none"
    /\ export_error' = "none"
    /\ epc' = "saving"
    /\ UNCHANGED sharedvars

\* save, lines 327-358: active object, process_filepath, the objects.
\* `return shared(e)` calls the module: TypeError
SavePrelude ==
    /\ NotExp
    /\ epc = "saving"
    /\ IF ~export_scene.active_is_mesh
          /\ ~\E i \in 1..Len(export_scene.objects) : IsMeshKind(export_scene.objects[i])
       THEN /\ save_result' = "No mesh objects to export"
            /\ epc' = "save_returned"
            /\ UNCHANGED <<warning_messages, export_error>>
       ELSE IF export_scene.filepath_empty
       THEN /\ export_error' = "TypeError"
            /\ epc' = "raised"
            /\ UNCHANGED <<warning_messages, save_result>>
       ELSE /\ warning_messages' = GatherWarnings(warning_messages, export_scene.objects, 1)
            /\ UNCHANGED export_error
            /\ IF Exportable(export_scene.objects) = <<>>
               THEN /\ save_result' = "There are no objects to export"
                    /\ epc' = "save_returned"
               ELSE /\ epc' = "gathered"
                    /\ UNCHANGED save_result
    /\ UNCHANGED <<printed, popup, export_scene, export_kwargs, use_vtx_cols,
                   export_result>>

\* save, line 364: use_vtx_cols = kwargs.get("format_version") < 6
SaveVersionGate ==
    /\ NotExp
    /\ epc = "gathered"
    /\ LET r == py_lt(export_kwargs.format_version, PyInt(6))
       IN  IF r.raised # "none"
           THEN /\ export_error' = r.raised
                /\ epc' = "raised"
                /\ UNCHANGED use_vtx_cols
           ELSE /\ use_vtx_cols' = {r.value}
                /\ epc' = "gated"
                /\ UNCHANGED export_error
    /\ UNCHANGED <<sharedvars, export_scene, export_kwargs, save_result, export_result>>

\* execute, lines 496-501: except Exception: add_warning, return CANCELLED
ExportCatch ==
    /\ NotExp
    /\ epc = "raised"
    /\ warning_messages' = add_warning(warning_messages, "An error occurred while exporting")
    /\ export_result' = "CANCELLED"
    /\ epc' = "returned"
    /\ UNCHANGED <<printed, popup, export_scene, export_kwargs, use_vtx_cols,
                   save_result, export_error>>

\* execute, lines 503-511: the result of save, then show_warnings
ExportReturn ==
    /\ NotExp
    /\ epc = "save_returned"
    /\ export_result' = IF save_result = "None" THEN "FINISHED" ELSE "CANCELLED"
    /\ popup' = show_warnings_popup(warning_messages, popup)
    /\ warning_messages' = show_warnings_left(warning_messages)
    /\ epc' = "returned"
    /\ UNCHANGED <<printed, export_scene, export_kwargs, use_vtx_cols, save_result,
                   export_error>>

ExpInit == Idle

ExpNext ==
    \/ ExportExecute
    \/ SavePrelude
    \/ SaveVersionGate
    \/ ExportCatch
    \/ ExportReturn

SpecExport == ExpInit /\ [][ExpNext]_vars

\* save gets as far as the version gate
ReachesVersionGate ==
    /\ export_scene.active_is_mesh
         \/ \E i \in 1..Len(export_scene.objects) : IsMeshKind(export_scene.objects[i])
    /\ ~export_scene.filepath_empty
    /\ Exportable(export_scene.objects) # <<>>

\* C13: for each of the format versions 5, 6 and 7 that the operator
\* delivers, vertex colours are used exactly when the version is at least 6,
\* and the export goes on to serialization: it finishes.
C13_VersionGatesVertexColours ==
    (epc = "returned" /\ ReachesVersionGate) =>
        /\ use_vtx_cols = {py_int(export_kwargs.format_version) >= 6}
        /\ export_result = "FINISHED"

\* C20: when an operator execution ends, whether FINISHED, CANCELLED or by
\* an exception inside the operation, the warning accumulator is empty.
C20_NoWarningLeftBehind ==
    epc = "returned" => warning_messages = <<>>

-----------------------------------------------------------------------------
(* XAnim export: __init__.py COD_MT_export_xanim.execute and               *)
(* export_xanim.py save                                                    *)

MaxPoseBones == 3
MaxActions == 2
MaxFrame == 2

TAG_ALIGN_MATRIX == <<<<1, 0, 0>>, <<0, 1, 0>>, <<0, 0, 1>>>>
TAG_ALIGN_OFFSET == <<0, 0, 0>>

\* Names of the pose bones, in the order of ob.pose.bones
PoseBoneNames == <<"j_main", "TAG_ALIGN", "j_gun", "j_clip">>

\* bone.head and bone.matrix of a pose bone once the scene is at frame_num
PoseHead(bone, frame_num) == <<IndexOf(PoseBoneNames, bone) + 1, frame_num + 1, 1>>
PoseMatrix(bone, frame_num) ==
    <<<<IndexOf(PoseBoneNames, bone) + 2, frame_num, 0>>,
      <<0, IndexOf(PoseBoneNames, bone) + 2, 0>>,
      <<0, 0, 1>>>>

\* m.to_3x3().transposed(), as rows
Transposed(mtx) == [i \in 1..3 |-> [j \in 1..3 |-> mtx[j][i]]]

\* Subsequences of a sequence: what can be selected, in list order
RECURSIVE SubSequences(_)
SubSequences(q) ==
    IF q = <<>> THEN {<<>>}
    ELSE LET rest == SubSequences(Tail(q))
         IN  rest \cup {<<Head(q)>> \o r : r \in rest}

AnimObjects == {"none", "mesh", "mesh_animated", "armature_no_animation", "armature"}

AnimScenes ==
    UNION {[ob : AnimObjects, pose_bones : {SubSeq(PoseBoneNames, 1, n)},
            selected : SubSequences(SubSeq(PoseBoneNames, 1, n)),
            selection_is_none : {FALSE}, actions : 1..MaxActions,
            frame_start : 1..MaxFrame, frame_end : 0..MaxFrame] : n \in 1..MaxPoseBones}
    \cup
    {[ob |-> "armature", pose_bones |-> SubSeq(PoseBoneNames, 1, 1), selected |-> <<>>,
      selection_is_none |-> TRUE, actions |-> 1, frame_start |-> 1, frame_end |-> 1]}

AnimArgs ==
    [use_selection : BOOLEAN, write_tag_align : BOOLEAN, use_all_actions : BOOLEAN,
     global_scale : {1, 2}, apply_unit_scale : BOOLEAN]

\* save, line 89: pose_bones
SavedPoseBones(sc, args) == IF args.use_selection THEN sc.selected ELSE sc.pose_bones

\* save, lines 104-107: anim.parts
AnimParts(bones, tag_align) ==
    bones \o (IF tag_align THEN <<"TAG_ALIGN">> ELSE <<>>)

\* save, lines 121-129 with TAG_ALIGN put in front of the bones
FrameParts_TagAlignFirst(bones, frame_num, tag_align, scale) ==
    (IF tag_align
     THEN <<[offset |-> TAG_ALIGN_OFFSET, matrix |-> TAG_ALIGN_MATRIX]>>
     ELSE <<>>)
    \o [i \in 1..Len(bones) |->
          [offset |-> [c \in 1..3 |-> PoseHead(bones[i], frame_num)[c] * scale],
           matrix |-> Transposed(PoseMatrix(bones[i], frame_num))]]

\* save, lines 121-129: frame.parts of one frame
FrameParts(bones, frame_num, tag_align, scale) ==
    [i \in 1..Len(bones) |->
        [offset |-> [c \in 1..3 |-> PoseHead(bones[i], frame_num)[c] * scale],
         matrix |-> Transposed(PoseMatrix(bones[i], frame_num))]]
    \o (IF tag_align
        THEN <<[offset |-> TAG_ALIGN_OFFSET, matrix |-> TAG_ALIGN_MATRIX]>>
        ELSE <<>>)

\* save, lines 100-131: the Anim of one action
BuildAnim(sc, args) ==
    LET bones == SavedPoseBones(sc, args)
        count == IF sc.frame_end >= sc.frame_start
                 THEN sc.frame_end - sc.frame_start + 1 ELSE 0
    IN  [version |-> 3,
         parts |-> AnimParts(bones, args.write_tag_align),
         frames |-> [k \in 1..count |->
                        [frame |-> sc.frame_start + k - 1,
                         parts |-> FrameParts(bones, sc.frame_start + k - 1,
                                              args.write_tag_align, args.global_scale)]]]

\* save, line 88: actions
ActionCount(sc, args) == IF args.use_all_actions THEN sc.actions ELSE 1

\* An exception raised inside save leaves execute: nothing catches it
AnimRaise(e) ==
    /\ apc' = "returned"
    /\ anim_result' = "EXCEPTION"
    /\ anim_error' = e
    /\ UNCHANGED anim_save_result

\* execute, lines 725-730: the operator is invoked and calls save
AnimExecute ==
    /\ NotXa
    /\ apc = "start"
    /\ \E sc \in AnimScenes, args \in AnimArgs :
         /\ anim_scene' = sc
         /\ anim_args' = args
    /\ apc' = "saving"
    /\ UNCHANGED <<sharedvars, anims, anim_save_result, anim_result, anim_error>>

\* save, lines 53-68: ob.animation_data.action is read before the checks;
\* shared.calculate_unit_scale_factor is looked up on the module
AnimSaveChecks ==
    /\ NotXa
    /\ apc = "saving"
    /\ CASE anim_scene.ob \in {"none", "mesh", "armature_no_animation"} ->
                AnimRaise("AttributeError")
         [] anim_scene.ob = "mesh_animated" ->
                /\ anim_save_result' = "Error: Selected object must be an armature!"
                /\ apc' = "save_returned"
                /\ UNCHANGED <<anim_result, anim_error>>
         [] anim_args.apply_unit_scale
              /\ "calculate_unit_scale_factor" \notin SharedAttributes ->
                AnimRaise("AttributeError")
         [] OTHER ->
                /\ apc' = "actions"
                /\ UNCHANGED <<anim_save_result, anim_result, anim_error>>
    /\ UNCHANGED <<sharedvars, anim_scene, anim_args, anims>>

\* save, lines 91-149: one action is built and written; iterating the None
\* that selected_pose_bones is outside pose mode is a TypeError
AnimWriteAction ==
    /\ NotXa
    /\ apc = "actions"
    /\ Len(anims) < ActionCount(anim_scene, anim_args)
    /\ IF anim_args.use_selection /\ anim_scene.selection_is_none
       THEN /\ AnimRaise("TypeError")
            /\ UNCHANGED anims
       ELSE /\ anims' = Append(anims, BuildAnim(anim_scene, anim_args))
            /\ UNCHANGED <<apc, anim_save_result, anim_result, anim_error>>
    /\ UNCHANGED <<sharedvars, anim_scene, anim_args>>

\* save, lines 151-153: every action is written, save returns None
AnimSaveDone ==
    /\ NotXa
    /\ apc = "actions"
    /\ Len(anims) = ActionCount(anim_scene, anim_args)
    /\ anim_save_result' = "None"
    /\ apc' = "save_returned"
    /\ UNCHANGED <<sharedvars, anim_scene, anim_args, anims, anim_result, anim_error>>

\* execute, lines 732-741: the result of save, then show_warnings
AnimReturn ==
    /\ NotXa
    /\ apc = "save_returned"
    /\ anim_result' = IF anim_save_result = "None" THEN "FINISHED" ELSE "CANCELLED"
    /\ popup' = show_warnings_popup(warning_messages, popup)
    /\ warning_messages' = show_warnings_left(warning_messages)
    /\ apc' = "returned"
    /\ UNCHANGED <<printed, anim_scene, anim_args, anims, anim_save_result, anim_error>>

XaInit == Idle

XaNext ==
    \/ AnimExecute
    \/ AnimSaveChecks
    \/ AnimWriteAction
    \/ AnimSaveDone
    \/ AnimReturn

SpecXanimExport == XaInit /\ [][XaNext]_vars

\* What entry i of a frame must hold: the pose of bone i of the exported
\* bones at that frame, or the TAG_ALIGN constants
PartOfBone(bone, frame_num) ==
    [offset |-> [c \in 1..3 |-> PoseHead(bone, frame_num)[c] * anim_args.global_scale],
     matrix |-> Transposed(PoseMatrix(bone, frame_num))]

\* C28: save rejects an unusable context with an error result: with no active
\* object, an active object that is not an armature, or one without animation
\* data, save returns the corresponding error string, writes no file, and
\* never fails with an exception.
C28_UnusableContextRejected ==
    (apc = "returned" /\ anim_scene.ob # "armature") =>
        /\ anim_error = "none"
        /\ anim_result = "CANCELLED"
        /\ anims = <<>>
        /\ anim_save_result =
              CASE anim_scene.ob = "none" -> "Error: No object selected!"
                [] anim_scene.ob \in {"mesh", "mesh_animated"} ->
                       "Error: Selected object must be an armature!"
                [] OTHER -> "Error: Armature has no animation data!"

\* C14: in every Anim that save builds, each frame has as many parts as the
\* part table, entry i of a frame is the pose of the bone that entry i of
\* the table names, and TAG_ALIGN, when written, is the last entry of both.
C14_FramePartsFollowParts ==
    \A a \in 1..Len(anims) :
        LET anim == anims[a]
            bones == SavedPoseBones(anim_scene, anim_args)
            n == Len(bones)
        IN  /\ Len(anim.parts) = n + (IF anim_args.write_tag_align THEN 1 ELSE 0)
            /\ \A i \in 1..n : anim.parts[i] = bones[i]
            /\ anim_args.write_tag_align => anim.parts[n + 1] = "TAG_ALIGN"
            /\ \A f \in 1..Len(anim.frames) :
                  /\ Len(anim.frames[f].parts) = Len(anim.parts)
                  /\ \A i \in 1..n :
                        anim.frames[f].parts[i] =
                            PartOfBone(anim.parts[i], anim.frames[f].frame)
                  /\ anim_args.write_tag_align =>
                        anim.frames[f].parts[n + 1] =
                            [offset |-> TAG_ALIGN_OFFSET, matrix |-> TAG_ALIGN_MATRIX]

\* Two actions are exported for a selection of two of three bones, with
\* TAG_ALIGN and two frames
C14_Witness ==
    /\ apc = "returned"
    /\ anim_result = "FINISHED"
    /\ Len(anims) = 2
    /\ anim_args.use_selection
    /\ anim_args.write_tag_align
    /\ anim_scene.selected = <<"j_main", "j_gun">>
    /\ anims[2].parts = <<"j_main", "j_gun", "TAG_ALIGN">>
    /\ Len(anims[2].frames) = 2
    /\ Len(anims[2].frames[2].parts) = 3

-----------------------------------------------------------------------------
(* import_xanim.py: the XAnim import operator, load, load_anim,             *)
(* get_mat_rest and calc_basis                                              *)
(*                                                                          *)
(* Matrices and vectors are kept as expressions over the matrices that come *)
(* in (a bone's matrix_local, a clip part of a frame, ...): a sequence of   *)
(* tokens that spells the computation. Two of them are equal exactly when   *)
(* they were computed the same way from the same inputs.                    *)

MaxPoseChain == 3
MaxClipFrames == 2

Digit(n) == <<"0", "1", "2", "3", "4", "5", "6">>[n + 1]

Fn1(op, a) == <<op, "(">> \o a \o <<")">>

Fn2(op, a, b) == <<op, "(">> \o a \o <<",">> \o b \o <<")">>

\* a @ b
MatMul(a, b) == Fn2("@", a, b)

\* Matrix(): the identity
IdentityMatrix == <<"Matrix()">>

\* bone.bone.matrix_local, bone.matrix, bone.head, bone.parent.length
matrix_local(name) == <<"matrix_local", name>>

bone_matrix(name) == <<"bone.matrix", name>>

bone_head(name) == <<"bone.head", name>>

parent_length(parent) == <<"length", parent>>

\* The armature: a chain Root <- arm <- hand, cut after its first n bones
ChainNames == <<"Root", "arm", "hand", "Finger">>

ChainParent(name) ==
    CASE name = "Root" -> ""
      [] name = "arm" -> "Root"
      [] name = "hand" -> "arm"
      [] OTHER -> "hand"

\* str.lower() on the names in use
name_lower(n) ==
    CASE n \in {"Root", "ROOT", "root"} -> "root"
      [] n \in {"arm", "ARM"} -> "arm"
      [] n \in {"hand", "Hand"} -> "hand"
      [] n \in {"Finger", "finger"} -> "finger"
      [] OTHER -> n

\* The name a clip gives to the part of a bone
PartNameOf(n) ==
    CASE n = "Root" -> "root"
      [] n = "arm" -> "ARM"
      [] n = "hand" -> "Hand"
      [] OTHER -> "finger"

\* bpy.types.Bone.inherit_scale is an enum of strings
InheritScaleModes == {"FULL", "NONE"}

\* Python truth of a str
str_truth(s) == s # ""

PoseOrders(n) == {p \in [1..n -> 1..n] : \A i, j \in 1..n : p[i] = p[j] => i = j}

PoseBone(name, rot, scl, loc) ==
    [name |-> name, parent |-> ChainParent(name), use_inherit_rotation |-> rot,
     inherit_scale |-> scl, use_local_location |-> loc]

\* ob.pose.bones, in the order the armature lists them
PoseBoneLists ==
    UNION {{[i \in 1..n |-> PoseBone(ChainNames[p[i]], rot, scl, loc)] :
                p \in PoseOrders(n), rot \in BOOLEAN, scl \in InheritScaleModes,
                loc \in BOOLEAN} : n \in 1..MaxPoseChain}

\* anim.parts: the names of the bones the clip drives. The clip lists them
\* last bone first; it may leave the root out.
ClipParts(bones, with_root) ==
    LET names == {bones[i].name : i \in 1..Len(bones)} \ (IF with_root THEN {} ELSE {"Root"})
        F[k \in 0..Len(ChainNames)] ==
            IF k = 0 THEN <<>>
            ELSE IF ChainNames[k] \in names THEN <<PartNameOf(ChainNames[k])>> \o F[k - 1]
            ELSE F[k - 1]
    IN  F[Len(ChainNames)]

\* The operator's notetrack properties at their defaults, a text clip, one note
DefaultNotes(sc) ==
    [has_armature |-> sc.has_armature, bones |-> sc.bones, parts |-> sc.parts,
     frames |-> sc.frames, files |-> sc.files, global_scale |-> sc.global_scale,
     update_frame_range |-> sc.update_frame_range,
     use_notetracks |-> TRUE, use_notetrack_file |-> FALSE, is_bin |-> FALSE, notes |-> 1,
     apply_unit_scale |-> FALSE]

\* The same with Apply Unit enabled
WithUnitScale(sc) == [sc EXCEPT !.apply_unit_scale = TRUE]

ClipScenes ==
    {DefaultNotes([has_armature |-> FALSE, bones |-> <<>>, parts |-> <<>>, frames |-> 0,
                   files |-> 1, global_scale |-> 1, update_frame_range |-> TRUE])}
    \cup
    {DefaultNotes([has_armature |-> TRUE, bones |-> <<PoseBone("Root", TRUE, "FULL", TRUE)>>,
                   parts |-> <<"root">>, frames |-> fr, files |-> fl, global_scale |-> 1,
                   update_frame_range |-> ufr]) : fr \in {0}, fl \in 0..1, ufr \in BOOLEAN}
    \cup
    {DefaultNotes([has_armature |-> TRUE, bones |-> bs, parts |-> ClipParts(bs, wr),
                   frames |-> fr, files |-> 1, global_scale |-> 1,
                   update_frame_range |-> TRUE]) :
        bs \in PoseBoneLists, wr \in BOOLEAN, fr \in 1..MaxClipFrames}
    \cup
    {[has_armature |-> TRUE, bones |-> <<PoseBone("Root", TRUE, "FULL", TRUE)>>,
      parts |-> <<"root">>, frames |-> 1, files |-> 1, global_scale |-> 1,
      update_frame_range |-> TRUE, use_notetracks |-> nt, use_notetrack_file |-> ntf,
      is_bin |-> bin, notes |-> 1, apply_unit_scale |-> FALSE] :
        nt \in BOOLEAN, ntf \in BOOLEAN, bin \in BOOLEAN}
    \cup
    {WithUnitScale(DefaultNotes(
        [has_armature |-> ha, bones |-> <<PoseBone("Root", TRUE, "FULL", TRUE)>>,
         parts |-> <<"root">>, frames |-> 1, files |-> 1, global_scale |-> 1,
         update_frame_range |-> TRUE])) : ha \in BOOLEAN}

\* load, line 36: what load_anim receives as use_notetrack_file
load_use_notetrack_file(sc) == sc.use_notetracks

\* load_anim, line 43: use_notetracks was popped from the keywords at line 36,
\* so the parameter has its default
load_anim_use_notetracks(sc) == TRUE

\* load_anim, line 49: the flag LoadFile_Raw is given; LoadFile_Bin gets none
LoadFileArg(sc) == IF sc.is_bin THEN {} ELSE {load_use_notetrack_file(sc)}

\* load_anim, lines 108-111: the pose markers made of anim.notes
NoteMarkers(sc) == IF load_anim_use_notetracks(sc) THEN sc.notes ELSE 0

\* part_indices[name]: the position of the part in anim.parts, from 0
part_index_of(parts, lname) ==
    (CHOOSE i \in 1..Len(parts) :
        /\ name_lower(parts[i]) = lname
        /\ \A j \in (i + 1)..Len(parts) : name_lower(parts[j]) # lname) - 1

InPartIndices(parts, lname) == \E i \in 1..Len(parts) : name_lower(parts[i]) = lname

\* bone_map before the parents are linked, in insertion order
bone_map_entries(bones, parts) ==
    LET F[k \in 0..Len(bones)] ==
            IF k = 0 THEN <<>>
            ELSE IF InPartIndices(parts, name_lower(bones[k].name))
                 THEN Append(F[k - 1],
                             [bone |-> bones[k],
                              part_index |-> part_index_of(parts, name_lower(bones[k].name)),
                              parent |-> "", matrix |-> <<>>])
                 ELSE F[k - 1]
    IN  F[Len(bones)]

InBoneMap(map, name) == \E i \in 1..Len(map) : map[i].bone.name = name

BoneData(map, name) == map[CHOOSE i \in 1..Len(map) : map[i].bone.name = name]

\* bone_data['parent'] = bone_map[parent_name] where the parent is in the map
link_parents(map) ==
    [i \in 1..Len(map) |->
        IF map[i].bone.parent # "" /\ InBoneMap(map, map[i].bone.parent)
        THEN [map[i] EXCEPT !.parent = map[i].bone.parent]
        ELSE map[i]]

\* mtx of a part of a frame: Matrix(part.matrix).transposed().to_4x4() with
\* translation Vector(part.offset) * global_scale
part_mtx(part_index, frame, scale) ==
    <<"mtx", "part", Digit(part_index), "frame", Digit(frame), "scale", Digit(scale)>>

\* mat_offs
mat_offs(bone) ==
    Fn2("with_translation", Fn1("to_4x4", bone_matrix(bone.name)),
        Fn2("+", bone_head(bone.name), parent_length(bone.parent)))

scale_diagonal(parent_pose_matrix) ==
    Fn1("to_4x4", Fn1("Diagonal", Fn1("col_lengths", Fn1("to_3x3", parent_pose_matrix))))

mat_rotscale(bone, parent_pose_matrix, parent_rest_matrix) ==
    LET rot_off == ~bone.use_inherit_rotation
        scl_off == ~str_truth(bone.inherit_scale)
    IN  IF rot_off /\ scl_off THEN MatMul(parent_rest_matrix, mat_offs(bone))
        ELSE IF rot_off
             THEN MatMul(MatMul(scale_diagonal(parent_pose_matrix), parent_rest_matrix),
                         mat_offs(bone))
        ELSE IF scl_off THEN MatMul(Fn1("normalized", parent_pose_matrix), mat_offs(bone))
        ELSE MatMul(parent_pose_matrix, mat_offs(bone))

translate_form(parent_pose_matrix, offs) ==
    MatMul(Fn1("Translation", MatMul(parent_pose_matrix, Fn1("translation", offs))),
           Fn1("to_4x4", Fn1("to_3x3", parent_pose_matrix)))

mat_loc_LocalLocationSwapped(bone, parent_pose_matrix, rotscale) ==
    LET rot_off == ~bone.use_inherit_rotation
        scl_off == ~str_truth(bone.inherit_scale)
    IN  IF bone.use_local_location
        THEN translate_form(parent_pose_matrix, mat_offs(bone))
        ELSE IF rot_off \/ scl_off THEN MatMul(parent_pose_matrix, mat_offs(bone))
        ELSE rotscale

mat_loc(bone, parent_pose_matrix, rotscale) ==
    LET rot_off == ~bone.use_inherit_rotation
        scl_off == ~str_truth(bone.inherit_scale)
    IN  IF ~bone.use_local_location
        THEN translate_form(parent_pose_matrix, mat_offs(bone))
        ELSE IF rot_off \/ scl_off THEN MatMul(parent_pose_matrix, mat_offs(bone))
        ELSE rotscale

get_mat_rest_NoRootCase(bone, parent_pose_matrix, parent_rest_matrix) ==
    LET rotscale == mat_rotscale(bone, parent_pose_matrix, parent_rest_matrix)
    IN  <<rotscale, mat_loc(bone, parent_pose_matrix, rotscale)>>

\* (rest_rotation, rest_location)
get_mat_rest(bone, parent_pose_matrix, parent_rest_matrix) ==
    IF bone.parent = ""
    THEN <<matrix_local(bone.name), matrix_local(bone.name)>>
    ELSE LET rotscale == mat_rotscale(bone, parent_pose_matrix, parent_rest_matrix)
         IN  <<rotscale, mat_loc(bone, parent_pose_matrix, rotscale)>>

calc_basis(bone, target, parent_pose, parent_rest) ==
    LET rest == get_mat_rest(bone, parent_pose, parent_rest)
    IN  [rot |-> rest[1], loc |-> rest[2],
         basis |-> Fn2("with_translation",
                       Fn1("to_4x4", Fn1("transposed", MatMul(Fn1("inverted", target), rest[1]))),
                       MatMul(Fn1("inverted", rest[2]), Fn1("translation", target)))]

\* execute calls load: find_active_armature, the unit scale (line 37, where
\* shared.calculate_unit_scale_factor is looked up on the module), then
\* load_anim for every file
XiExecute ==
    /\ NotXi
    /\ xipc \in {"start", "returned"}
    /\ \E sc \in ClipScenes :
        /\ clip_scene' = sc
        /\ IF /\ sc.has_armature /\ sc.apply_unit_scale
              /\ "calculate_unit_scale_factor" \notin SharedAttributes
           THEN /\ xi_error' = "AttributeError"
                /\ xi_result' = "EXCEPTION"
                /\ xipc' = "returned"
           ELSE /\ xipc' = IF ~sc.has_armature THEN "no_armature"
                           ELSE IF sc.files = 0 THEN "loaded"
                           ELSE "load_anim"
                /\ xi_result' = "none"
                /\ xi_error' = "none"
    /\ bone_map' = <<>>
    /\ frame_i' = 0
    /\ bone_i' = 0
    /\ last_call' = <<>>
    /\ keyed' = {}
    /\ xi_notes' = [LoadFile_Raw |-> {}, markers |-> 0]
    /\ UNCHANGED sharedvars

\* load_anim up to the frame loop: the frame range, bone_map and its parents.
\* min() of no frames raises ValueError, which nothing catches.
XiLoadAnim ==
    /\ NotXi
    /\ xipc = "load_anim"
    /\ IF clip_scene.update_frame_range /\ clip_scene.frames = 0
       THEN /\ xi_error' = "ValueError"
            /\ xi_result' = "EXCEPTION"
            /\ xipc' = "returned"
            /\ xi_notes' = [LoadFile_Raw |-> LoadFileArg(clip_scene), markers |-> 0]
            /\ UNCHANGED <<bone_map, frame_i, bone_i>>
       ELSE /\ bone_map' = link_parents(bone_map_entries(clip_scene.bones, clip_scene.parts))
            /\ frame_i' = 1
            /\ bone_i' = 1
            /\ xipc' = IF clip_scene.frames = 0 \/ bone_map' = <<>> THEN "loaded" ELSE "baking"
            /\ xi_notes' = [LoadFile_Raw |-> LoadFileArg(clip_scene),
                            markers |-> IF xipc' = "loaded" THEN NoteMarkers(clip_scene) ELSE 0]
            /\ UNCHANGED <<xi_error, xi_result>>
    /\ UNCHANGED <<clip_scene, last_call, keyed>>
    /\ UNCHANGED sharedvars

\* One pass of the inner loop: the next bone of bone_map in the current frame.
\* A parent without a 'matrix' yet raises KeyError, which nothing catches.
XiBakeBone ==
    /\ NotXi
    /\ xipc = "baking"
    /\ LET bone_data == bone_map[bone_i]
           has_parent == bone_data.parent # ""
       IN  IF has_parent /\ BoneData(bone_map, bone_data.parent).matrix = <<>>
           THEN /\ xi_error' = "KeyError"
                /\ xi_result' = "EXCEPTION"
                /\ xipc' = "returned"
                /\ UNCHANGED <<bone_map, frame_i, bone_i, last_call, keyed, xi_notes>>
           ELSE LET parent_matrix == IF has_parent
                                     THEN BoneData(bone_map, bone_data.parent).matrix
                                     ELSE IdentityMatrix
                    mtx == part_mtx(bone_data.part_index, frame_i, clip_scene.global_scale)
                    res == calc_basis(bone_data.bone, mtx, parent_matrix,
                                      matrix_local(bone_data.bone.name))
                    last_bone == bone_i = Len(bone_map)
                IN  /\ bone_map' = [bone_map EXCEPT ![bone_i].matrix = mtx]
                    /\ last_call' = <<[bone |-> bone_data.bone, frame |-> frame_i,
                                       target |-> mtx, parent_pose |-> parent_matrix,
                                       parent_rest |-> matrix_local(bone_data.bone.name),
                                       rot |-> res.rot, loc |-> res.loc,
                                       matrix_basis |-> res.basis]>>
                    /\ keyed' = keyed \cup {<<bone_data.bone.name, frame_i>>}
                    /\ bone_i' = IF last_bone THEN 1 ELSE bone_i + 1
                    /\ frame_i' = IF last_bone THEN frame_i + 1 ELSE frame_i
                    /\ xipc' = IF last_bone /\ frame_i = clip_scene.frames
                               THEN "loaded" ELSE "baking"
                    /\ xi_notes' = [xi_notes EXCEPT !.markers =
                                        IF xipc' = "loaded" THEN NoteMarkers(clip_scene) ELSE 0]
                    /\ UNCHANGED <<xi_error, xi_result>>
    /\ UNCHANGED clip_scene
    /\ UNCHANGED sharedvars

\* load returned: None, or the message when no armature was found
XiReturn ==
    /\ NotXi
    /\ xipc \in {"loaded", "no_armature"}
    /\ xi_result' = IF xipc = "loaded" THEN "FINISHED" ELSE "CANCELLED"
    /\ popup' = show_warnings_popup(warning_messages, popup)
    /\ warning_messages' = show_warnings_left(warning_messages)
    /\ xipc' = "returned"
    /\ UNCHANGED <<printed, clip_scene, bone_map, frame_i, bone_i, last_call, keyed, xi_error,
                   xi_notes>>

XiInit == Idle

XiNext ==
    \/ XiExecute
    \/ XiLoadAnim
    \/ XiBakeBone
    \/ XiReturn

SpecXanimImport == XiInit /\ [][XiNext]_vars

\* C21: the two notetrack flags are honoured independently: notes become
\* pose markers exactly when use_notetracks is enabled, and the NT_EXPORT
\* companion file is asked for exactly when use_notetrack_file is enabled.
C21_NotetrackFlagsIndependent ==
    (xipc = "returned" /\ xi_result = "FINISHED" /\ clip_scene.files > 0) =>
        /\ xi_notes.markers = (IF clip_scene.use_notetracks THEN clip_scene.notes ELSE 0)
        /\ ~clip_scene.is_bin => xi_notes.LoadFile_Raw = {clip_scene.use_notetrack_file}

\* The calc_basis call just made, if there is one
Called == last_call # <<>>

\* The flags as the armature means them
RotationInherited(bone) == bone.use_inherit_rotation

ScaleInherited(bone) == bone.inherit_scale # "NONE"

\* C15: for a bone without a parent, get_mat_rest returns rest_rotation and
\* rest_location both equal to the bone's local bind matrix, whatever the
\* rotation-inheritance, scale-inheritance and use_local_location flags are.
C15_RootBoneRestsOnBindMatrix ==
    (Called /\ last_call[1].bone.parent = "") =>
        /\ last_call[1].rot = matrix_local(last_call[1].bone.name)
        /\ last_call[1].loc = matrix_local(last_call[1].bone.name)

C15_Witness ==
    /\ Called
    /\ last_call[1].bone.parent = ""
    /\ ~last_call[1].bone.use_inherit_rotation
    /\ last_call[1].bone.inherit_scale = "NONE"
    /\ ~last_call[1].bone.use_local_location
    /\ last_call[1].rot = matrix_local("Root")

\* rest_rotation as selected by the two inheritance flags of the bone, from
\* the parent's pose matrix and the rest matrix of the parent
RestRotationByFlags(bone, parent_pose_matrix) ==
    LET parent_rest_rotation == matrix_local(bone.parent)
    IN  IF ~RotationInherited(bone) /\ ~ScaleInherited(bone)
        THEN MatMul(parent_rest_rotation, mat_offs(bone))
        ELSE IF ~RotationInherited(bone)
             THEN MatMul(MatMul(scale_diagonal(parent_pose_matrix), parent_rest_rotation),
                         mat_offs(bone))
        ELSE IF ~ScaleInherited(bone)
             THEN MatMul(Fn1("normalized", parent_pose_matrix), mat_offs(bone))
        ELSE MatMul(parent_pose_matrix, mat_offs(bone))

\* C16: for a bone with a parent, rest_rotation is parent_rest_rotation *
\* offset when neither flag is inherited, diag(parent pose axis lengths) *
\* parent_rest_rotation * offset when only scale is inherited,
\* normalize(parent_pose_matrix) * offset when only rotation is inherited and
\* parent_pose_matrix * offset when both are, parent_rest_rotation being the
\* rest matrix of the bone's parent.
C16_RestRotationByFlags ==
    (Called /\ last_call[1].bone.parent # "") =>
        last_call[1].rot = RestRotationByFlags(last_call[1].bone, last_call[1].parent_pose)

\* C17 as stated: for a bone with a parent, rest_location is
\* translate(parent_pose_matrix * offset.translation) *
\* rotation_part(parent_pose_matrix) if the bone uses local-location storage;
\* otherwise parent_pose_matrix * offset, or rest_rotation itself when either
\* inheritance flag is off.
C17_RestLocationAsStated ==
    (Called /\ last_call[1].bone.parent # "") =>
        LET bone == last_call[1].bone
            pp == last_call[1].parent_pose
        IN  last_call[1].loc =
                IF bone.use_local_location THEN translate_form(pp, mat_offs(bone))
                ELSE IF ~RotationInherited(bone) \/ ~ScaleInherited(bone)
                     THEN last_call[1].rot
                ELSE MatMul(pp, mat_offs(bone))

\* C17: for a bone with a parent, rest_location is
\* translate(parent_pose_matrix * offset.translation) *
\* rotation_part(parent_pose_matrix) if the bone does not use local-location
\* storage, and parent_pose_matrix * offset if it does.
C17_RestLocation ==
    (Called /\ last_call[1].bone.parent # "") =>
        LET bone == last_call[1].bone
            pp == last_call[1].parent_pose
        IN  last_call[1].loc =
                IF ~bone.use_local_location THEN translate_form(pp, mat_offs(bone))
                ELSE MatMul(pp, mat_offs(bone))

C17_Witness ==
    /\ Called
    /\ last_call[1].bone.name = "arm"
    /\ ~last_call[1].bone.use_local_location
    /\ last_call[1].parent_pose = part_mtx(1, 2, 1)
    /\ last_call[1].loc = translate_form(part_mtx(1, 2, 1), mat_offs(last_call[1].bone))

\* C18: within every frame each bone is processed after its parent: whenever
\* calc_basis runs for a bone whose parent is driven by the clip, the parent
\* pose matrix it receives is the one computed for that same frame, never a
\* missing one, for any order in which the armature lists its pose bones.
C18_ParentBakedFirst ==
    /\ xi_error # "KeyError"
    /\ (Called /\ last_call[1].bone.parent # "" /\ InBoneMap(bone_map, last_call[1].bone.parent)) =>
           last_call[1].parent_pose =
               part_mtx(BoneData(bone_map, last_call[1].bone.parent).part_index,
                        last_call[1].frame, clip_scene.global_scale)

-----------------------------------------------------------------------------
(* __init__.py: register, unregister, update_submenu_mode                   *)
(*                                                                          *)
(* A menu is the list of draw functions appended to it, named by the        *)
(* function; other add-ons append their own.                                *)

MaxOtherEntries == 2

FlatImport == <<"menu_func_xmodel_import", "menu_func_xanim_import">>

FlatExport == <<"menu_func_xmodel_export", "menu_func_xanim_export">>

SubmenuImport == <<"menu_func_import_submenu">>

SubmenuExport == <<"menu_func_export_submenu">>

\* Menu.remove(draw_func): the first occurrence goes; an absent function
\* leaves the list as it is
menu_remove(funcs, f) ==
    IF \E i \in 1..Len(funcs) : funcs[i] = f
    THEN LET i == CHOOSE i \in 1..Len(funcs) :
                      funcs[i] = f /\ \A j \in 1..(i - 1) : funcs[j] # f
         IN  SubSeq(funcs, 1, i - 1) \o SubSeq(funcs, i + 1, Len(funcs))
    ELSE funcs

RECURSIVE menu_remove_all(_, _)
menu_remove_all(funcs, fs) ==
    IF fs = <<>> THEN funcs
    ELSE menu_remove_all(menu_remove(funcs, Head(fs)), Tail(fs))

\* register, lines 899-906: the entries of the mode the preference names
register_import(funcs, submenu) ==
    funcs \o (IF ~submenu THEN FlatImport ELSE SubmenuImport)

register_export(funcs, submenu) ==
    funcs \o (IF ~submenu THEN FlatExport ELSE SubmenuExport)

\* unregister, lines 915-929: the entries of the mode the preference names
\* at the time of the call
unregister_import(funcs, submenu) ==
    menu_remove_all(funcs, IF ~submenu THEN FlatImport ELSE SubmenuImport)

unregister_export(funcs, submenu) ==
    menu_remove_all(funcs, IF ~submenu THEN FlatExport ELSE SubmenuExport)

\* The add-on is enabled: register(). The first time the saved preference
\* is either value.
EnableAddon ==
    /\ NotMenu
    /\ ~classes_registered
    /\ \E saved \in BOOLEAN :
         /\ use_submenu' = IF plugin_preferences = "None" THEN saved ELSE use_submenu
         /\ file_import' = register_import(file_import, use_submenu')
         /\ file_export' = register_export(file_export, use_submenu')
    /\ classes_registered' = TRUE
    /\ plugin_preferences' = "preferences"
    /\ UNCHANGED sharedvars

\* The add-on is disabled: unregister()
DisableAddon ==
    /\ NotMenu
    /\ classes_registered
    /\ file_import' = unregister_import(file_import, use_submenu)
    /\ file_export' = unregister_export(file_export, use_submenu)
    /\ classes_registered' = FALSE
    /\ UNCHANGED <<use_submenu, plugin_preferences>>
    /\ UNCHANGED sharedvars

\* The user toggles use_submenu: the property is set, then its update
\* callback update_submenu_mode runs unregister() and register()
ToggleSubmenu ==
    /\ NotMenu
    /\ classes_registered
    /\ use_submenu' = ~use_submenu
    /\ file_import' = register_import(unregister_import(file_import, use_submenu'),
                                      use_submenu')
    /\ file_export' = register_export(unregister_export(file_export, use_submenu'),
                                      use_submenu')
    /\ UNCHANGED <<classes_registered, plugin_preferences>>
    /\ UNCHANGED sharedvars

\* Another add-on appends an entry of its own to one of the two menus
OtherAddonAppends ==
    /\ NotMenu
    /\ \/ /\ Len(SelectSeq(file_import, LAMBDA f : f = "other")) < MaxOtherEntries
          /\ file_import' = Append(file_import, "other")
          /\ UNCHANGED file_export
       \/ /\ Len(SelectSeq(file_export, LAMBDA f : f = "other")) < MaxOtherEntries
          /\ file_export' = Append(file_export, "other")
          /\ UNCHANGED file_import
    /\ UNCHANGED <<classes_registered, use_submenu, plugin_preferences>>
    /\ UNCHANGED sharedvars

MenuInit == Idle

MenuNext ==
    \/ EnableAddon
    \/ DisableAddon
    \/ ToggleSubmenu
    \/ OtherAddonAppends

SpecMenus == MenuInit /\ [][MenuNext]_vars

\* The entries of the add-on in a menu, in order
OwnEntries(funcs) == SelectSeq(funcs, LAMBDA f : f # "other")

\* C27: menu registration stays consistent. After register() and any
\* sequence of use_submenu toggles, File > Import and File > Export contain
\* exactly the entries of the current mode, each once, and none of the other
\* mode.
C27_MenusFollowMode ==
    classes_registered =>
        /\ OwnEntries(file_import) = (IF use_submenu THEN SubmenuImport ELSE FlatImport)
        /\ OwnEntries(file_export) = (IF use_submenu THEN SubmenuExport ELSE FlatExport)

-----------------------------------------------------------------------------
(* export_xmodel.py save: the per-object loop, lines 372-406, and the loop  *)
(* over the gathered meshes, lines 443-453                                  *)

MaxLoopObjects == 2

Modifier(t, shown) == [type |-> t, show_viewport |-> shown]

\* obj.modifiers
ModifierStacks ==
    {<<>>,
     <<Modifier("ARMATURE", TRUE)>>,
     <<Modifier("SUBSURF", TRUE)>>,
     <<Modifier("ARMATURE", TRUE), Modifier("SUBSURF", FALSE)>>,
     <<Modifier("SUBSURF", TRUE), Modifier("ARMATURE", FALSE)>>}

\* An object: its modifiers, whether evaluating it raises RuntimeError, and
\* len(mesh.vertices) of its evaluated, triangulated mesh
LoopObjects ==
    [modifiers : ModifierStacks, to_mesh_raises : BOOLEAN, vertices : {2, 3}]

LoopKwargs == [use_armature_pose : BOOLEAN, apply_modifiers : BOOLEAN]

\* lines 374-379: show_viewport of the modifiers while the mesh is evaluated
modifiers_for_export(mods, kw) ==
    [i \in 1..Len(mods) |->
        [mods[i] EXCEPT !.show_viewport =
            IF mods[i].type = "ARMATURE"
            THEN mods[i].show_viewport /\ kw.use_armature_pose
            ELSE mods[i].show_viewport /\ kw.apply_modifiers]]

\* lines 395-397: mod.show_viewport = mod_states[i]
restore_modifiers(mods, mod_states) ==
    [i \in 1..Len(mods) |-> [mods[i] EXCEPT !.show_viewport = mod_states[i]]]

\* What bpy does with the mesh of lines 401-404 once it has been removed:
\* meshes.remove refuses a mesh that to_mesh() made (RuntimeError), or
\* removes it and the next read of it raises ReferenceError, or the handle
\* stays readable
RemovedMeshOutcomes == {"RuntimeError", "ReferenceError", "readable"}

\* _skip_notice, lines 28-30
skip_notice(out, ob, notice) == out \cup {<<"Skipped object", ob, notice>>}

\* save is called with its objects
SaveEnterLoop ==
    /\ NotObj
    /\ objpc = "start"
    /\ \E n \in 0..MaxLoopObjects :
         \E obs \in [1..n -> LoopObjects], kw \in LoopKwargs :
            /\ save_objects' = obs
            /\ save_objects_before' = obs
            /\ loop_kwargs' = kw
    /\ objpc' = "loop"
    /\ UNCHANGED <<obj_index, loop_meshes, converted_meshes, loop_raised>>
    /\ UNCHANGED sharedvars

\* One pass of the loop body, lines 372-406
SaveVisitObject ==
    /\ NotObj
    /\ objpc = "loop"
    /\ obj_index <= Len(save_objects)
    /\ LET obj == save_objects[obj_index]
           mod_states == [i \in 1..Len(obj.modifiers) |-> obj.modifiers[i].show_viewport]
           changed == modifiers_for_export(obj.modifiers, loop_kwargs)
           restored == restore_modifiers(changed, mod_states)
       IN  IF obj.to_mesh_raises
           THEN \* except RuntimeError: add_warning, continue
                /\ save_objects' = [save_objects EXCEPT ![obj_index].modifiers = changed]
                /\ warning_messages' = add_warning(warning_messages, "RUNTIME ERROR getting mesh")
                /\ obj_index' = obj_index + 1
                /\ UNCHANGED <<objpc, loop_meshes, loop_raised, printed>>
           ELSE /\ save_objects' = [save_objects EXCEPT ![obj_index].modifiers = restored]
                /\ UNCHANGED warning_messages
                /\ IF obj.vertices < 3
                   THEN /\ printed' = skip_notice(printed, obj_index, "Less than 3 vertices")
                        /\ \E outcome \in RemovedMeshOutcomes :
                             IF outcome = "readable"
                             THEN /\ loop_meshes' = Append(loop_meshes,
                                        [object |-> obj_index, removed |-> TRUE])
                                  /\ obj_index' = obj_index + 1
                                  /\ UNCHANGED <<objpc, loop_raised>>
                             ELSE /\ loop_raised' = outcome
                                  /\ objpc' = "raised"
                                  /\ UNCHANGED <<loop_meshes, obj_index>>
                   ELSE /\ loop_meshes' = Append(loop_meshes,
                              [object |-> obj_index, removed |-> FALSE])
                        /\ obj_index' = obj_index + 1
                        /\ UNCHANGED <<objpc, loop_raised, printed>>
    /\ UNCHANGED <<save_objects_before, loop_kwargs, converted_meshes, popup>>

\* lines 443-453: add_weights and to_xmodel_mesh for every gathered mesh,
\* then the rest of save
SaveConvertGathered ==
    /\ NotObj
    /\ objpc = "loop"
    /\ obj_index > Len(save_objects)
    /\ converted_meshes' = [k \in 1..Len(loop_meshes) |-> loop_meshes[k].object]
    /\ objpc' = "returned"
    /\ UNCHANGED <<save_objects, save_objects_before, loop_kwargs, obj_index, loop_meshes, loop_raised>>
    /\ UNCHANGED sharedvars

ObjInit == Idle

ObjNext ==
    \/ SaveEnterLoop
    \/ SaveVisitObject
    \/ SaveConvertGathered

SpecObjects == ObjInit /\ [][ObjNext]_vars

\* C29: save restores what it temporarily changes. On every path through
\* the per-object loop, the RuntimeError path included, every modifier's
\* show_viewport of every visited object equals, when save returns, the
\* value it had before the call.
C29_ModifiersRestored ==
    objpc = "returned" =>
        \A i \in 1..Len(save_objects) :
            \A j \in 1..Len(save_objects[i].modifiers) :
                save_objects[i].modifiers[j].show_viewport =
                    save_objects_before[i].modifiers[j].show_viewport

\* The visited objects whose evaluated mesh has fewer than 3 vertices
VisitedSmall ==
    {i \in 1..Len(save_objects) :
        /\ i < obj_index \/ objpc = "raised"
        /\ i <= obj_index
        /\ ~save_objects[i].to_mesh_raises
        /\ save_objects[i].vertices < 3}

\* C30: an object whose evaluated mesh has fewer than 3 vertices is
\* skipped. After the skip notice and the removal of its mesh the loop goes
\* on, no ExportMesh for it is appended, and no removed mesh is weighted or
\* converted.
C30_SmallMeshSkipped ==
    \A i \in VisitedSmall :
        /\ loop_raised = "None"
        /\ \A k \in 1..Len(loop_meshes) : loop_meshes[k].object # i
        /\ \A k \in 1..Len(converted_meshes) : converted_meshes[k] # i

=============================================================================
